---------------------------- MODULE Spec2Model ----------------------------
(***************************************************************************)
(* promptwatch: the session-log aggregator (internal/monitor) and the      *)
(* view-navigation state machine (internal/ui).                            *)
(*                                                                         *)
(* SpecParse runs ParseSessionFile line by line over a bounded session     *)
(* file.  Spec runs the Bubble Tea Update loop of the UI over a small      *)
(* file system whose session files are aggregated by the same operators.   *)
(***************************************************************************)
EXTENDS Integers, Sequences, FiniteSets, Bags, TLC

VARIABLES
    file,       \* the lines of the session file being scanned
    openOk,     \* whether os.Open of the file succeeds
    lineNum,    \* number of lines the scanner has returned
    stats,      \* ParseSessionFile: the *SessionStats under construction
    pc,         \* the scan: "open", "scan", "done" (result, nil) or "error" (nil, err)
    m,          \* ui.Model: the value threaded through Update
    pending,    \* commands running in the background, their messages not yet delivered
    ticks,      \* tea.Tick timers armed and not yet fired
    enteredFrom, \* history: the list view from which ViewSessions was last entered
    meta,       \* GetSessionMetadata: the locals of the metadata pass over file
    calcMsg,    \* the monitor.Message handed to calculateMessageCost and calculateRatio
    calcRow,    \* the cost, savings, ratio and output percentage computed for it
    dirFiles,   \* loadSessionsFromProject: the entries os.ReadDir returns, in its order
    listed,     \* loadSessionsFromProject: the sessionsMsg it returns
    findIn,     \* loadSessions: the working directory and the projects root it looks in
    found,      \* loadSessions: the lookup it made, its sessionsMsg and the model after it
    viewport,   \* scrollToSelection: the message count, selection and viewport before
    scrolled,   \* scrollToSelection: the target line and the viewport after
    sysProcs,   \* FindClaudeProcesses: the processes of the system, and showHelpers
    procScan,   \* FindClaudeProcesses: the loop position, last metrics and result
    cardIn,     \* renderMessageCard: the MessageRow handed to it
    card        \* renderMessageCard: isSelected and the lines of the card it returns

parseVars == <<file, openOk, lineNum, stats, pc>>
uiVars == <<m, pending, ticks, enteredFrom>>
calcVars == <<calcMsg, calcRow>>
listVars == <<dirFiles, listed>>
findVars == <<findIn, found>>
scrollVars == <<viewport, scrolled>>
procVars == <<sysProcs, procScan>>
cardVars == <<cardIn, card>>

(***************************************************************************)
(* Bounds                                                                  *)
(***************************************************************************)
MaxLines == 3
MaxPending == 1
MaxTokens == 3
MaxFiles == 3
MaxCards == 4
MaxHeight == 10
MaxProcs == 2
MaxContentLines == 4

(***************************************************************************)
(* Session file lines.                                                     *)
(*                                                                         *)
(* A line is what json.Unmarshal sees.  ok = FALSE is a line on which      *)
(* Unmarshal into SessionEntry returns an error (broken syntax, or a field *)
(* of the wrong JSON type: Unmarshal then still fills the fields it could  *)
(* decode, which is why such a line carries fields too).  tooLong is a     *)
(* line over the scanner's 10 MB limit.  timestamp is the "timestamp"      *)
(* string: 0 stands for "" (absent), -1 for text time.Parse rejects, n>=1  *)
(* for an RFC3339 instant n seconds into the session's day.  A content     *)
(* block holds the field its type reads (text, name or content) in str,    *)
(* with isStr saying whether that field is a JSON string, and for tool_use *)
(* the "input" value: hasInput says whether it is present and an object.   *)
(***************************************************************************)
NoUsage == [input |-> 0, output |-> 0, cacheCreation |-> 0, cacheRead |-> 0]
NoInput == [k \in {} |-> "0"]

Block(type, isStr, str, hasInput, input) ==
    [type |-> type, isStr |-> isStr, str |-> str, hasInput |-> hasInput, input |-> input]

TextBlock(t)        == Block("text", TRUE, t, FALSE, NoInput)
ToolUse(name, inp)  == Block("tool_use", TRUE, name, TRUE, inp)
ToolUseNoInput(name) == Block("tool_use", TRUE, name, FALSE, NoInput)
ToolResult(t)       == Block("tool_result", TRUE, t, FALSE, NoInput)
ToolResultArr       == Block("tool_result", FALSE, "", FALSE, NoInput)
Thinking            == Block("thinking", FALSE, "", FALSE, NoInput)

Line(ok, type, ts, version, hasMessage, role, contentKind, contentStr, blocks, usage) ==
    [ok |-> ok, tooLong |-> FALSE, type |-> type, timestamp |-> ts, version |-> version,
     hasMessage |-> hasMessage, role |-> role, contentKind |-> contentKind,
     contentStr |-> contentStr, blocks |-> blocks, usage |-> usage]

StrEntry(type, ts, version, role, s) ==
    Line(TRUE, type, ts, version, TRUE, role, "string", s, <<>>, NoUsage)
ArrEntry(type, ts, role, blocks, usage) ==
    Line(TRUE, type, ts, "", TRUE, role, "array", "", blocks, usage)
Event(type, ts, version) ==
    Line(TRUE, type, ts, version, FALSE, "", "other", "", <<>>, NoUsage)

Usage1 == [input |-> 10, output |-> 5, cacheCreation |-> 0, cacheRead |-> 2]
InputA == [k \in {"a"} |-> "1"]
InputBA == [k \in {"a", "b"} |-> IF k = "a" THEN "1" ELSE "2"]

LUserHello    == StrEntry("user", 1, "2.1.25", "user", "hello")
LUserEmpty    == StrEntry("user", 2, "", "user", "")
LAsstString   == StrEntry("assistant", 3, "2.1.26", "assistant", "hi")
LSystemRole   == StrEntry("user", 2, "", "system", "note")
LAsstTexts    == ArrEntry("assistant", 4, "assistant",
                          <<Thinking, TextBlock("first"), TextBlock("second")>>, Usage1)
LAsstTools    == ArrEntry("assistant", 2, "assistant",
                          <<ToolUse("Read", InputBA), ToolUse("Write", InputA)>>, Usage1)
LAsstTool     == ArrEntry("assistant", 5, "assistant", <<ToolUse("Bash", InputA)>>, NoUsage)
LAsstToolText == ArrEntry("assistant", 3, "assistant",
                          <<ToolUseNoInput("Grep"), TextBlock("done")>>, NoUsage)
LAsstThinking == ArrEntry("assistant", 2, "assistant", <<Thinking>>, Usage1)
LAsstResult   == ArrEntry("assistant", 1, "assistant", <<ToolResult("out")>>, NoUsage)
LUserResult   == ArrEntry("user", -1, "user",
                          <<ToolResultArr, ToolResult("out"), ToolResult("late")>>, NoUsage)
LProgress     == Event("progress", 0, "2.1.27")
LSystem       == Event("system", 6, "")
LNoMessage    == Event("user", 4, "")
LBadSyntax    == [Event("", 0, "") EXCEPT !.ok = FALSE]
LBadType      == [StrEntry("user", 7, "9.9.9", "user", "lost") EXCEPT !.ok = FALSE]
LTooLong      == [LUserHello EXCEPT !.tooLong = TRUE]

LineSet ==
    {LUserHello, LUserEmpty, LAsstString, LSystemRole, LAsstTexts, LAsstTools, LAsstTool,
     LAsstToolText, LAsstThinking, LAsstResult, LUserResult, LProgress, LSystem,
     LNoMessage, LBadSyntax, LBadType, LTooLong}

RECURSIVE SeqsUpTo(_, _)
SeqsUpTo(S, n) ==
    IF n = 0 THEN {<<>>}
    ELSE LET shorter == SeqsUpTo(S, n - 1)
         IN shorter \cup {Append(s, x) : s \in {t \in shorter : Len(t) = n - 1}, x \in S}

(***************************************************************************)
(* internal/monitor/session_parser.go                                      *)
(***************************************************************************)
ZeroTime == 0

\* time.Parse(RFC3339Nano), then time.Parse(RFC3339); the zero time when the
\* string is empty or both fail.
ParseTimestamp(s) == IF s >= 1 THEN s ELSE ZeroTime

\* json.Marshal of the tool input map: an object with its keys in sorted order.
MarshalKeys == <<"a", "b">>
RECURSIVE MarshalFrom(_, _, _)
MarshalFrom(inputMap, i, first) ==
    IF i > Len(MarshalKeys) THEN ""
    ELSE LET k == MarshalKeys[i]
         IN IF k \in DOMAIN inputMap
            THEN (IF first THEN "" ELSE ",") \o "\"" \o k \o "\":" \o inputMap[k]
                 \o MarshalFrom(inputMap, i + 1, FALSE)
            ELSE MarshalFrom(inputMap, i + 1, first)
Marshal(inputMap) == "{" \o MarshalFrom(inputMap, 1, TRUE) \o "}"

NewStats(filePath) ==
    [FilePath |-> filePath, CreatedAt |-> ZeroTime, LastActivity |-> ZeroTime,
     Duration |-> 0, TotalMessages |-> 0, UserMessages |-> 0, AssistantMessages |-> 0,
     ProgressEvents |-> 0, SystemEvents |-> 0, FileSnapshots |-> 0, QueueOperations |-> 0,
     CompactCount |-> 0, ErrorCount |-> 0, MessageHistory |-> <<>>, ClaudeVersion |-> ""]

NoContent == [contentStr |-> "", toolName |-> "", toolInput |-> "", msgType |-> ""]

\* The user branch of the array loop: the first tool_result item whose content
\* is a string, then break.
RECURSIVE UserItems(_, _)
UserItems(contentArr, i) ==
    IF i > Len(contentArr) THEN NoContent
    ELSE IF contentArr[i].type = "tool_result" /\ contentArr[i].isStr
         THEN [NoContent EXCEPT !.contentStr = contentArr[i].str, !.msgType = "tool_result"]
         ELSE UserItems(contentArr, i + 1)

\* One iteration of the assistant branch of the array loop.  The break of the
\* text case leaves the switch, not the loop: the loop goes on to the next item.
AssistantItem_takesResult(acc, item) ==
    CASE item.type \in {"text", "tool_result"} /\ item.isStr ->
            [acc EXCEPT !.contentStr = item.str,
                        !.msgType = IF item.type = "text" THEN "assistant_response"
                                    ELSE "tool_result"]
      [] item.type = "tool_use" /\ item.isStr ->
            [acc EXCEPT !.toolName = item.str,
                        !.msgType = "assistant_response",
                        !.toolInput = IF item.hasInput THEN Marshal(item.input) ELSE @,
                        !.contentStr = IF @ = "" THEN "Called tool: " \o item.str ELSE @]
      [] OTHER -> acc
AssistantItem(acc, item) ==
    CASE item.type = "text" /\ item.isStr ->
            [acc EXCEPT !.contentStr = item.str, !.msgType = "assistant_response"]
      [] item.type = "tool_use" /\ item.isStr ->
            [acc EXCEPT !.toolName = item.str,
                        !.msgType = "assistant_response",
                        !.toolInput = IF item.hasInput THEN Marshal(item.input) ELSE @,
                        !.contentStr = IF @ = "" THEN "Called tool: " \o item.str ELSE @]
      [] OTHER -> acc

RECURSIVE AssistantItems(_, _, _)
AssistantItems(contentArr, i, acc) ==
    IF i > Len(contentArr) THEN acc
    ELSE AssistantItems(contentArr, i + 1, AssistantItem(acc, contentArr[i]))

\* Content extraction of a message entry: string content, or the array loops.
ExtractContent(entry) ==
    IF entry.contentKind = "string"
    THEN [NoContent EXCEPT !.contentStr = entry.contentStr, !.msgType = "prompt"]
    ELSE IF entry.contentKind = "array"
         THEN IF entry.role = "user" THEN UserItems(entry.blocks, 1)
              ELSE IF entry.role = "assistant" THEN AssistantItems(entry.blocks, 1, NoContent)
              ELSE NoContent
         ELSE NoContent

\* The default message type, applied only when the extraction set none.
DefaultType(msgType, role) ==
    IF msgType # "" THEN msgType
    ELSE IF role = "user" THEN "prompt" ELSE "assistant_response"

\* Token usage is read for assistant entries only.
EntryUsage(entry) == IF entry.role = "assistant" THEN entry.usage ELSE NoUsage

NewMessage(entry, c, timestamp) ==
    [Role |-> entry.role, Content |-> c.contentStr, Timestamp |-> timestamp,
     Type |-> DefaultType(c.msgType, entry.role),
     ToolName |-> c.toolName, ToolInput |-> c.toolInput,
     InputTokens |-> EntryUsage(entry).input, OutputTokens |-> EntryUsage(entry).output,
     CacheCreation |-> EntryUsage(entry).cacheCreation,
     CacheRead |-> EntryUsage(entry).cacheRead,
     Version |-> entry.version]

\* case "user", "assistant": the message counters and the emitted Message.
MessageEntry_always(st, entry, timestamp) ==
    IF ~(entry.hasMessage /\ entry.role # "") THEN st
    ELSE [st EXCEPT !.TotalMessages = @ + 1,
                    !.UserMessages = IF entry.role = "user" THEN @ + 1 ELSE @,
                    !.AssistantMessages = IF entry.role = "assistant" THEN @ + 1 ELSE @,
                    !.MessageHistory =
                        Append(@, NewMessage(entry, ExtractContent(entry), timestamp))]
MessageEntry(st, entry, timestamp) ==
    IF ~(entry.hasMessage /\ entry.role # "") THEN st
    ELSE LET counted ==
                 [st EXCEPT !.TotalMessages = @ + 1,
                            !.UserMessages = IF entry.role = "user" THEN @ + 1 ELSE @,
                            !.AssistantMessages = IF entry.role = "assistant" THEN @ + 1 ELSE @]
             c == ExtractContent(entry)
         IN IF c.contentStr # ""
            THEN [counted EXCEPT !.MessageHistory = Append(@, NewMessage(entry, c, timestamp))]
            ELSE counted

\* The creation and activity times, updated for every decoded entry.
UpdateTimes_firstSeen(st, timestamp) ==
    LET created == IF st.CreatedAt = ZeroTime \/ timestamp < st.CreatedAt
                   THEN timestamp ELSE st.CreatedAt
        last    == IF st.LastActivity = ZeroTime THEN timestamp ELSE st.LastActivity
    IN [st EXCEPT !.CreatedAt = created, !.LastActivity = last]
UpdateTimes(st, timestamp) ==
    LET created == IF st.CreatedAt = ZeroTime \/ timestamp < st.CreatedAt
                   THEN timestamp ELSE st.CreatedAt
        last    == IF timestamp > st.LastActivity THEN timestamp ELSE st.LastActivity
    IN [st EXCEPT !.CreatedAt = created, !.LastActivity = last]

\* The version of the first entry that carries one.
UpdateVersion(st, entry) ==
    IF st.ClaudeVersion = "" /\ entry.version # ""
    THEN [st EXCEPT !.ClaudeVersion = entry.version] ELSE st

\* switch entry.Type
CountEntry(st, entry, timestamp) ==
    CASE entry.type \in {"user", "assistant"} -> MessageEntry(st, entry, timestamp)
      [] entry.type = "progress"              -> [st EXCEPT !.ProgressEvents = @ + 1]
      [] entry.type = "system"                -> [st EXCEPT !.SystemEvents = @ + 1]
      [] entry.type = "file-history-snapshot" -> [st EXCEPT !.FileSnapshots = @ + 1]
      [] entry.type = "queue-operation"       -> [st EXCEPT !.QueueOperations = @ + 1]
      [] entry.type = "compact"               -> [st EXCEPT !.CompactCount = @ + 1]
      [] entry.type = "error"                 -> [st EXCEPT !.ErrorCount = @ + 1]
      [] OTHER                                -> st

\* if err := json.Unmarshal(scanner.Bytes(), &entry); err != nil { continue }
SkipLine_process(line) == FALSE
SkipLine(line) == ~line.ok

\* The body of the scan loop for one line.
ProcessLine(st, line) ==
    IF SkipLine(line) THEN st
    ELSE LET timestamp == ParseTimestamp(line.timestamp)
         IN CountEntry(UpdateTimes(UpdateVersion(st, line), timestamp), line, timestamp)

\* After the loop: the duration, when both times are set.
Finish(st) ==
    IF st.CreatedAt # ZeroTime /\ st.LastActivity # ZeroTime
    THEN [st EXCEPT !.Duration = st.LastActivity - st.CreatedAt] ELSE st

\* ParseSessionFile on a file that opens: <<stats, err>> with stats = Nil on error.
Nil == [nil |-> TRUE]
RECURSIVE ScanFrom(_, _, _)
ScanFrom(lines, i, st) ==
    IF i > Len(lines) THEN [stats |-> Finish(st), err |-> FALSE]
    ELSE IF lines[i].tooLong THEN [stats |-> Nil, err |-> TRUE]
         ELSE ScanFrom(lines, i + 1, ProcessLine(st, lines[i]))
ParseSessionFile(filePath, lines) == ScanFrom(lines, 1, NewStats(filePath))

(***************************************************************************)
(* internal/monitor/session_parser.go: GetSessionMetadata.  Timestamps are *)
(* in seconds.                                                             *)
(***************************************************************************)
interruptionGap == 3600

\* The locals of the pass before the first line.
NewMeta ==
    [firstTime |-> ZeroTime, lastTime |-> ZeroTime, messageCount |-> 0, userPrompts |-> 0,
     lastMessageTime |-> ZeroTime, interruptions |-> 0,
     totalInputTokens |-> 0, totalOutputTokens |-> 0, version |-> "", firstPrompt |-> ""]

\* if !lastMessageTime.IsZero() && ts.Sub(lastMessageTime) > interruptionGap
Interrupted_atLeast(ts, lastMessageTime) ==
    lastMessageTime # ZeroTime /\ ts - lastMessageTime >= interruptionGap
Interrupted(ts, lastMessageTime) ==
    lastMessageTime # ZeroTime /\ ts - lastMessageTime > interruptionGap

\* The first and last times, and the version of the first timestamped entry.
MetaTimes(mt, entry, ts) ==
    [mt EXCEPT !.firstTime = IF @ = ZeroTime THEN ts ELSE @,
               !.version = IF mt.firstTime = ZeroTime THEN entry.version ELSE @,
               !.lastTime = ts]

\* if entry.Type == "user" || entry.Type == "assistant"
MetaMessage(mt, entry, ts) ==
    [mt EXCEPT !.messageCount = @ + 1,
               !.userPrompts = IF entry.type = "user" THEN @ + 1 ELSE @,
               !.firstPrompt = IF entry.type = "user" /\ @ = "" /\ entry.hasMessage
                                  /\ entry.contentKind = "string"
                               THEN entry.contentStr ELSE @,
               !.totalInputTokens =
                   IF entry.type = "assistant" /\ entry.hasMessage /\ entry.contentKind # "other"
                   THEN @ + entry.usage.input + entry.usage.cacheCreation ELSE @,
               !.totalOutputTokens =
                   IF entry.type = "assistant" /\ entry.hasMessage /\ entry.contentKind # "other"
                   THEN @ + entry.usage.output ELSE @,
               !.interruptions = IF Interrupted(ts, mt.lastMessageTime) THEN @ + 1 ELSE @,
               !.lastMessageTime = ts]

\* The body of the scan loop of GetSessionMetadata for one line: lines that do
\* not decode, have no timestamp, or a timestamp time.Parse rejects are skipped.
MetaLine(mt, line) ==
    IF ~line.ok \/ line.timestamp = 0 \/ line.timestamp < 0 THEN mt
    ELSE LET ts == line.timestamp
             timed == MetaTimes(mt, line, ts)
         IN IF line.type \in {"user", "assistant"} THEN MetaMessage(timed, line, ts) ELSE timed

\* The returned *SessionMetadata.
MetaResult(mt) ==
    [Started |-> mt.firstTime, Ended |-> mt.lastTime, Duration |-> mt.lastTime - mt.firstTime,
     MessageCount |-> mt.messageCount, UserPrompts |-> mt.userPrompts,
     Interruptions |-> mt.interruptions,
     TotalInputTokens |-> mt.totalInputTokens, TotalOutputTokens |-> mt.totalOutputTokens,
     Version |-> mt.version, FirstPrompt |-> mt.firstPrompt]

(***************************************************************************)
(* The file system the UI reads.  A path is its sequence of components.    *)
(* The projects root holds the directory "-work-a" with two session files  *)
(* and the directory "-work-b" with one; one process runs in /work/a.      *)
(***************************************************************************)
ProcA == [PID |-> 101, WorkingDir |-> <<"work", "a">>]
ProcessSnapshots == {<<ProcA>>}

DirEntries(dirName) ==
    CASE dirName = "-work-a" -> <<"s1", "s2">>
      [] dirName = "-work-b" -> <<"s3">>
      [] OTHER               -> <<>>
DirExists(dirName) == dirName \in {"-work-a", "-work-b"}
ProjectSnapshots == {<<"-work-a">>}

FileLines(path) ==
    CASE path = <<"-work-a", "s1">> -> <<LUserHello, LBadType, LAsstTexts>>
      [] path = <<"-work-a", "s2">> -> <<LAsstTool, LAsstToolText>>
      [] path = <<"-work-b", "s3">> -> <<LProgress, LUserResult>>
      [] OTHER                      -> <<>>
\* The file modification times, in seconds.
ModTime(path) ==
    CASE path = <<"-work-a", "s1">> -> 130
      [] path = <<"-work-a", "s2">> -> 310
      [] OTHER                      -> 95

(***************************************************************************)
(* internal/monitor/sessions.go, internal/ui/model.go: the loaders         *)
(***************************************************************************)
\* Format("2006-01-02 15:04") followed by time.Parse of the same layout: the
\* time cut to the minute.
FormatMinute(t) == t \div 60

RECURSIVE JoinDash(_, _)
JoinDash(parts, i) ==
    IF i > Len(parts) THEN ""
    ELSE (IF i = 1 THEN "" ELSE "-") \o parts[i] \o JoinDash(parts, i + 1)
\* convertPathToSessionDirName: drop the leading slash, then every slash
\* becomes a dash.
convertPathToSessionDirName(path) == JoinDash(path, 1)

SessionInfoOf(dirName, name) ==
    [ID |-> name, Path |-> <<dirName, name>>, Updated |-> FormatMinute(ModTime(<<dirName, name>>))]

RECURSIVE ListDir(_, _)
ListDir(dirName, i) ==
    IF i > Len(DirEntries(dirName)) THEN <<>>
    ELSE <<SessionInfoOf(dirName, DirEntries(dirName)[i])>> \o ListDir(dirName, i + 1)

\* FindSessionsForDirectory and the conversion of loadSessions: a missing
\* directory is no sessions and no error.
FindSessionsForDirectory(workingDir) ==
    LET dirName == convertPathToSessionDirName(workingDir)
    IN IF ~DirExists(dirName) THEN <<>> ELSE ListDir(dirName, 1)

Swap(s, i, j) == [s EXCEPT ![i] = s[j], ![j] = s[i]]
RECURSIVE SortInner(_, _, _)
SortInner(sessions, i, j) ==
    IF j > Len(sessions) THEN sessions
    ELSE SortInner(IF sessions[j].Updated > sessions[i].Updated
                   THEN Swap(sessions, i, j) ELSE sessions, i, j + 1)
RECURSIVE SortOuter(_, _)
SortOuter(sessions, i) ==
    IF i > Len(sessions) THEN sessions
    ELSE SortOuter(SortInner(sessions, i, i + 1), i + 1)

\* The SessionInfo values loadSessionsFromProject appends for the entries of a
\* directory: directories and files that are not .jsonl are passed over.
RECURSIVE SessionInfosOf(_, _)
SessionInfosOf(entries, i) ==
    IF i > Len(entries) THEN <<>>
    ELSE (IF entries[i].isSession
          THEN <<[ID |-> entries[i].name, Path |-> <<"project", entries[i].name>>,
                  Updated |-> FormatMinute(entries[i].modTime)]>>
          ELSE <<>>) \o SessionInfosOf(entries, i + 1)

\* loadSessionsFromProject: the directory's .jsonl files, newest first.
loadSessionsFromProject(dirName) == SortOuter(ListDir(dirName, 1), 1)

(***************************************************************************)
(* internal/ui/model.go, internal/ui/update.go                             *)
(***************************************************************************)
ViewProcesses     == "ViewProcesses"
ViewProjects      == "ViewProjects"
ViewSessions      == "ViewSessions"
ViewSessionDetail == "ViewSessionDetail"
ViewMessageDetail == "ViewMessageDetail"

FilterAll           == "FilterAll"
FilterUserOnly      == "FilterUserOnly"
FilterAssistantOnly == "FilterAssistantOnly"

Heights == {24}

Cmd(kind, arg) == [kind |-> kind, arg |-> arg]
refreshProcesses == Cmd("processes", <<>>)
tick             == Cmd("tick", <<>>)
loadProjects     == Cmd("projects", <<>>)
loadSessions(mm) == Cmd("sessions", mm.selectedProc.WorkingDir)
loadProjectSessions(dirName) == Cmd("projectSessions", <<dirName>>)
loadSessionDetail(mm) == Cmd("sessionDetail", mm.sessions[mm.selectedSessionIdx + 1].Path)

\* What Update returns: the model and the commands to run.
Ret(mm, cmds) == [m |-> mm, cmds |-> cmds]

NewModel ==
    [viewMode |-> ViewProcesses, quitting |-> FALSE,
     processes |-> <<>>, selectedProcIdx |-> 0, selectedProc |-> Nil,
     projects |-> <<>>, selectedProjIdx |-> 0, projectsError |-> "",
     sessions |-> <<>>, sessionError |-> "", selectedSessionIdx |-> 0,
     sessionSourceMode |-> ViewProcesses,
     sessionStats |-> Nil, messages |-> <<>>, messageError |-> "",
     messageFilter |-> FilterAll, filteredMessageCount |-> 0, selectedMessageIdx |-> 0,
     detailMessage |-> Nil, detailScrollOffset |-> 0,
     messageSortNewestFirst |-> FALSE,
     termHeight |-> 24,
     highlighted |-> -1]

KeepsMessage_userByRole(filter, msg) ==
    CASE filter = FilterUserOnly      -> msg.Role = "user"
      [] filter = FilterAssistantOnly -> msg.Type = "assistant_response" \/ msg.Type = "tool_result"
      [] OTHER                        -> TRUE
KeepsMessage_noToolResult(filter, msg) ==
    CASE filter = FilterUserOnly      -> msg.Type = "prompt"
      [] filter = FilterAssistantOnly -> msg.Type = "assistant_response"
      [] OTHER                        -> TRUE
KeepsMessage(filter, msg) ==
    CASE filter = FilterUserOnly      -> msg.Type = "prompt"
      [] filter = FilterAssistantOnly -> msg.Type = "assistant_response" \/ msg.Type = "tool_result"
      [] OTHER                        -> TRUE

RECURSIVE FilterFrom(_, _, _)
FilterFrom(history, filter, i) ==
    IF i > Len(history) THEN <<>>
    ELSE (IF KeepsMessage(filter, history[i]) THEN <<history[i]>> ELSE <<>>)
         \o FilterFrom(history, filter, i + 1)

\* getFilteredMessages: the history under the current filter, in file order.
getFilteredMessages(mm, st) == FilterFrom(st.MessageHistory, mm.messageFilter, 1)

Reverse(s) == [i \in 1..Len(s) |-> s[Len(s) + 1 - i]]

MessageRow(msg, i) ==
    [Index |-> i, Role |-> msg.Role, Content |-> msg.Content, Time |-> msg.Timestamp,
     InputTokens |-> msg.InputTokens, OutputTokens |-> msg.OutputTokens,
     CacheCreation |-> msg.CacheCreation, CacheRead |-> msg.CacheRead]

\* m.messageViewport.SetContent(m.renderMessageCards()): highlighted is the
\* index of the card rendered with isSelected, -1 when no card is.
renderMessageCards(mm) ==
    [mm EXCEPT !.highlighted =
        IF mm.selectedMessageIdx >= 0 /\ mm.selectedMessageIdx < Len(mm.messages)
        THEN mm.selectedMessageIdx ELSE -1]

\* updateMessageTable: the displayed rows, filtered and in the sort order,
\* rendered as cards into the viewport.
updateMessageTable(mm) ==
    IF mm.sessionStats = Nil THEN mm
    ELSE LET filtered == FilterFrom(mm.sessionStats.MessageHistory, mm.messageFilter, 1)
             ordered  == IF mm.messageSortNewestFirst THEN Reverse(filtered) ELSE filtered
         IN renderMessageCards(
               [mm EXCEPT !.filteredMessageCount = Len(ordered),
                          !.messages = [i \in 1..Len(ordered) |-> MessageRow(ordered[i], i)]])

\* Cost constants, in units of 1e-7 USD per token: $3, $3, $0.30 and $15 per
\* million tokens.
InputTokenCost         == 30
CacheCreationTokenCost == 30
CacheReadTokenCost     == 3
OutputTokenCost        == 150

\* calculateMessageCost: cost and cache savings of one message, in 1e-7 USD.
calculateMessageCost_noCacheCreation(message) ==
    IF message.Type # "assistant_response" THEN [cost |-> 0, savings |-> 0]
    ELSE LET inputCost     == message.InputTokens * InputTokenCost
             cacheReadCost == message.CacheRead * CacheReadTokenCost
             outputCost    == message.OutputTokens * OutputTokenCost
         IN [cost |-> inputCost + cacheReadCost + outputCost,
             savings |-> IF message.CacheRead > 0
                         THEN message.CacheRead * InputTokenCost - cacheReadCost ELSE 0]
calculateMessageCost(message) ==
    IF message.Type # "assistant_response" THEN [cost |-> 0, savings |-> 0]
    ELSE LET inputCost         == message.InputTokens * InputTokenCost
             cacheCreationCost == message.CacheCreation * CacheCreationTokenCost
             cacheReadCost     == message.CacheRead * CacheReadTokenCost
             outputCost        == message.OutputTokens * OutputTokenCost
         IN [cost |-> inputCost + cacheCreationCost + cacheReadCost + outputCost,
             savings |-> IF message.CacheRead > 0
                         THEN message.CacheRead * InputTokenCost - cacheReadCost ELSE 0]

\* calculateRatio: the input/output ratio as a fraction num/den, and the output
\* percentage by integer division.
calculateRatio(inputTokens, outputTokens) ==
    LET total == inputTokens + outputTokens
    IN CASE total = 0        -> [ratio |-> [num |-> 0, den |-> 1], outputPercent |-> 0]
         [] outputTokens = 0 -> [ratio |-> [num |-> inputTokens, den |-> 1], outputPercent |-> 0]
         [] inputTokens = 0  -> [ratio |-> [num |-> 0, den |-> 1], outputPercent |-> 100]
         [] OTHER            -> [ratio |-> [num |-> inputTokens, den |-> outputTokens],
                                 outputPercent |-> (outputTokens * 100) \div total]

\* fmt.Sprintf("Showing %d user prompts", n) and the like.
Showing(what, n) == "Showing " \o ToString(n) \o " " \o what

\* case "q", "ctrl+c"
KeyQuitUpdate(mm) == Ret([mm EXCEPT !.quitting = TRUE], <<>>)

\* case "esc"
KeyEscUpdate_toList(mm) ==
    CASE mm.viewMode = ViewMessageDetail ->
            Ret([mm EXCEPT !.viewMode = ViewSessions, !.detailMessage = Nil,
                           !.detailScrollOffset = 0], <<>>)
      [] mm.viewMode = ViewSessionDetail ->
            Ret([mm EXCEPT !.viewMode = ViewSessions, !.sessionStats = Nil,
                           !.messages = <<>>, !.messageError = ""], <<>>)
      [] mm.viewMode = ViewSessions ->
            Ret([mm EXCEPT !.viewMode = IF mm.sessionSourceMode = ViewProjects
                                        THEN ViewProjects ELSE ViewProcesses,
                           !.selectedProc = Nil, !.sessions = <<>>, !.sessionError = "",
                           !.selectedSessionIdx = 0], <<>>)
      [] OTHER -> Ret(mm, <<>>)
KeyEscUpdate(mm) ==
    CASE mm.viewMode = ViewMessageDetail ->
            Ret([mm EXCEPT !.viewMode = ViewSessionDetail, !.detailMessage = Nil,
                           !.detailScrollOffset = 0], <<>>)
      [] mm.viewMode = ViewSessionDetail ->
            Ret([mm EXCEPT !.viewMode = ViewSessions, !.sessionStats = Nil,
                           !.messages = <<>>, !.messageError = ""], <<>>)
      [] mm.viewMode = ViewSessions ->
            Ret([mm EXCEPT !.viewMode = IF mm.sessionSourceMode = ViewProjects
                                        THEN ViewProjects ELSE ViewProcesses,
                           !.selectedProc = Nil, !.sessions = <<>>, !.sessionError = "",
                           !.selectedSessionIdx = 0], <<>>)
      [] OTHER -> Ret(mm, <<>>)

\* case "r"
KeyRUpdate(mm) ==
    IF mm.viewMode = ViewProcesses THEN Ret(mm, <<refreshProcesses>>) ELSE Ret(mm, <<>>)

\* case "f"
KeyFUpdate(mm) ==
    IF mm.viewMode = ViewProcesses
    THEN Ret(mm, <<refreshProcesses>>)
    ELSE Ret(mm, <<>>)

\* case "p"
KeyPUpdate(mm) ==
    CASE mm.viewMode = ViewProcesses ->
            Ret([mm EXCEPT !.viewMode = ViewProjects, !.selectedProjIdx = 0], <<loadProjects>>)
      [] mm.viewMode = ViewProjects ->
            Ret([mm EXCEPT !.viewMode = ViewProcesses, !.selectedProcIdx = 0],
                <<refreshProcesses>>)
      [] OTHER -> Ret(mm, <<>>)

FilterNote(filter, n) ==
    CASE filter = FilterUserOnly ->
            IF n = 0 THEN "No user prompts found in this session"
            ELSE Showing("user prompts", n)
      [] filter = FilterAssistantOnly ->
            IF n = 0 THEN "No Claude responses found in this session"
            ELSE Showing("Claude responses", n)
      [] OTHER ->
            IF n = 0 THEN "No messages found in this session"
            ELSE "Showing all " \o ToString(n) \o " messages"

\* case "u", "a", "b"
KeyFilterUpdate(mm, filter) ==
    IF mm.viewMode = ViewSessionDetail
    THEN LET shown == updateMessageTable([mm EXCEPT !.messageFilter = filter])
         IN Ret([shown EXCEPT !.messageError = FilterNote(filter, shown.filteredMessageCount)],
                <<>>)
    ELSE Ret(mm, <<>>)

\* case "s"
KeySUpdate(mm) ==
    IF mm.viewMode = ViewSessionDetail
    THEN LET shown == updateMessageTable([mm EXCEPT !.messageSortNewestFirst = ~@])
         IN Ret([shown EXCEPT !.messageError =
                     IF shown.messageSortNewestFirst THEN "Sorting newest first"
                     ELSE "Sorting oldest first"], <<>>)
    ELSE Ret(mm, <<>>)

InRange(idx, list) == idx >= 0 /\ idx < Len(list)

\* case "enter" in ViewProcesses
EnterProcess(mm) ==
    LET sel == [mm EXCEPT !.selectedProc = mm.processes[mm.selectedProcIdx + 1],
                          !.viewMode = ViewSessions,
                          !.sessionSourceMode = ViewProcesses,
                          !.selectedSessionIdx = 0]
    IN Ret(sel, <<loadSessions(sel)>>)

\* case "enter" in ViewProjects
EnterProject_noSource(mm) ==
    Ret([mm EXCEPT !.viewMode = ViewSessions,
                   !.selectedSessionIdx = 0],
        <<loadProjectSessions(mm.projects[mm.selectedProjIdx + 1])>>)
EnterProject(mm) ==
    Ret([mm EXCEPT !.viewMode = ViewSessions,
                   !.sessionSourceMode = ViewProjects,
                   !.selectedSessionIdx = 0],
        <<loadProjectSessions(mm.projects[mm.selectedProjIdx + 1])>>)

\* case "enter" in ViewSessions
EnterSession(mm) ==
    Ret([mm EXCEPT !.viewMode = ViewSessionDetail, !.messageFilter = FilterAll],
        <<loadSessionDetail(mm)>>)

\* case "enter" in ViewSessionDetail, and the "enter" of the navigation switch
\* below it: the message at the selection index of getFilteredMessages.
EnterMessage(mm) ==
    LET filteredMessages == getFilteredMessages(mm, mm.sessionStats)
    IN [mm EXCEPT !.detailMessage = filteredMessages[mm.selectedMessageIdx + 1],
                  !.viewMode = ViewMessageDetail,
                  !.detailScrollOffset = 0]

KeyEnterUpdate(mm) ==
    CASE mm.viewMode = ViewProcesses /\ Len(mm.processes) > 0
         /\ InRange(mm.selectedProcIdx, mm.processes) -> EnterProcess(mm)
      [] mm.viewMode = ViewProjects /\ Len(mm.projects) > 0
         /\ InRange(mm.selectedProjIdx, mm.projects) -> EnterProject(mm)
      [] mm.viewMode = ViewSessions /\ Len(mm.sessions) > 0
         /\ InRange(mm.selectedSessionIdx, mm.sessions) -> EnterSession(mm)
      [] mm.viewMode = ViewSessionDetail /\ mm.sessionStats # Nil
         /\ InRange(mm.selectedMessageIdx, getFilteredMessages(mm, mm.sessionStats)) ->
            Ret(EnterMessage(mm), <<>>)
      [] OTHER -> Ret(mm, <<>>)

\* The list views' "up" and "down", with wrapping.
WrapUp(idx, list) ==
    IF idx > 0 THEN idx - 1 ELSE IF Len(list) > 0 THEN Len(list) - 1 ELSE idx
WrapDown(idx, list) ==
    IF idx < Len(list) - 1 THEN idx + 1 ELSE IF Len(list) > 0 THEN 0 ELSE idx

\* strings.Split(content, "\n"): the contents of the model hold no newline.
ContentLines(content) == 1
MaxScroll(mm) ==
    LET pageHeight == mm.termHeight - 6
        maxScroll == ContentLines(mm.detailMessage.Content) - pageHeight
    IN IF maxScroll < 0 THEN 0 ELSE maxScroll

\* After a cursor move in ViewSessionDetail the cards are rendered again and
\* the viewport scrolled; the scroll offset is not among the fields here.
Moved(mm) == renderMessageCards(mm)

\* The "left" and "right" of ViewMessageDetail.
DetailAt(mm) ==
    IF mm.sessionStats # Nil
       /\ InRange(mm.selectedMessageIdx, getFilteredMessages(mm, mm.sessionStats))
    THEN [mm EXCEPT !.detailMessage =
              getFilteredMessages(mm, mm.sessionStats)[mm.selectedMessageIdx + 1]]
    ELSE mm

\* The navigation keys, handled per view after the first switch.
KeyNavUpdate(mm, key) ==
    CASE mm.viewMode = ViewProcesses ->
            CASE key = "up"   -> [mm EXCEPT !.selectedProcIdx = WrapUp(@, mm.processes)]
              [] key = "down" -> [mm EXCEPT !.selectedProcIdx = WrapDown(@, mm.processes)]
              [] OTHER        -> mm
      [] mm.viewMode = ViewProjects ->
            CASE key = "up"   -> [mm EXCEPT !.selectedProjIdx = WrapUp(@, mm.projects)]
              [] key = "down" -> [mm EXCEPT !.selectedProjIdx = WrapDown(@, mm.projects)]
              [] OTHER        -> mm
      [] mm.viewMode = ViewSessions ->
            CASE key = "up"   -> [mm EXCEPT !.selectedSessionIdx = WrapUp(@, mm.sessions)]
              [] key = "down" -> [mm EXCEPT !.selectedSessionIdx = WrapDown(@, mm.sessions)]
              [] OTHER        -> mm
      [] mm.viewMode = ViewSessionDetail /\ mm.sessionStats # Nil ->
            CASE key = "up" /\ mm.selectedMessageIdx > 0 ->
                    Moved([mm EXCEPT !.selectedMessageIdx = @ - 1])
              [] key = "down" /\ mm.selectedMessageIdx < Len(mm.messages) - 1 ->
                    Moved([mm EXCEPT !.selectedMessageIdx = @ + 1])
              [] key = "home" -> Moved([mm EXCEPT !.selectedMessageIdx = 0])
              [] key = "end"  -> Moved([mm EXCEPT !.selectedMessageIdx = Len(mm.messages) - 1])
              [] OTHER        -> mm
      [] mm.viewMode = ViewMessageDetail /\ mm.detailMessage # Nil ->
            CASE key = "up" /\ mm.detailScrollOffset > 0 ->
                    [mm EXCEPT !.detailScrollOffset = @ - 1]
              [] key = "down" /\ mm.detailScrollOffset < MaxScroll(mm) ->
                    [mm EXCEPT !.detailScrollOffset = @ + 1]
              [] key = "home" -> [mm EXCEPT !.detailScrollOffset = 0]
              [] key = "end"  -> [mm EXCEPT !.detailScrollOffset = MaxScroll(mm)]
              [] key = "pgup" ->
                    [mm EXCEPT !.detailScrollOffset =
                         IF @ - (mm.termHeight - 6) < 0 THEN 0 ELSE @ - (mm.termHeight - 6)]
              [] key = "pgdn" ->
                    [mm EXCEPT !.detailScrollOffset =
                         IF @ + (mm.termHeight - 6) > MaxScroll(mm) THEN MaxScroll(mm)
                         ELSE @ + (mm.termHeight - 6)]
              [] key = "left" /\ mm.selectedMessageIdx > 0 ->
                    DetailAt([mm EXCEPT !.selectedMessageIdx = @ - 1,
                                        !.detailScrollOffset = 0])
              [] key = "right" /\ mm.sessionStats # Nil
                 /\ mm.selectedMessageIdx
                      < Len(getFilteredMessages(mm, mm.sessionStats)) - 1 ->
                    DetailAt([mm EXCEPT !.selectedMessageIdx = @ + 1,
                                        !.detailScrollOffset = 0])
              [] OTHER -> mm
      [] OTHER -> mm

\* A tickMsg handler that re-arms the timer in the process list only.
TickUpdate_processListOnly(mm) ==
    IF mm.viewMode = ViewProcesses
    THEN Ret(mm, <<refreshProcesses, tick>>) ELSE Ret(mm, <<>>)

\* case tickMsg
TickUpdate(mm) ==
    IF mm.viewMode = ViewProcesses
    THEN Ret(mm, <<refreshProcesses, tick>>) ELSE Ret(mm, <<tick>>)

\* case processesMsg
ProcessesUpdate(mm, processes, err) == [mm EXCEPT !.processes = processes]

\* case sessionsMsg
SessionsUpdate(mm, sessions, err) ==
    IF err # "" THEN [mm EXCEPT !.sessionError = err]
    ELSE [mm EXCEPT !.sessionError = "", !.sessions = sessions]

\* case sessionDetailMsg
SessionDetailUpdate(mm, st, err) ==
    IF err # "" THEN [mm EXCEPT !.messageError = err]
    ELSE updateMessageTable([mm EXCEPT !.messageError = "",
                                       !.sessionStats = st,
                                       !.selectedMessageIdx = 0])

\* case projectsMsg
ProjectsUpdate_clears(mm, projects, err) ==
    IF err # "" THEN [mm EXCEPT !.projectsError = err, !.projects = <<>>]
    ELSE [mm EXCEPT !.projectsError = "", !.projects = projects]
ProjectsUpdate(mm, projects, err) ==
    IF err # "" THEN [mm EXCEPT !.projectsError = err]
    ELSE [mm EXCEPT !.projectsError = "", !.projects = projects]

\* case tea.WindowSizeMsg
WindowSizeUpdate(mm, height) ==
    updateMessageTable([mm EXCEPT !.termHeight = height])

(***************************************************************************)
(* SpecParse: ParseSessionFile, one scanner step at a time.                *)
(***************************************************************************)
ParsePath == <<"-work-a", "session">>

InitParse ==
    /\ file \in SeqsUpTo(LineSet, MaxLines)
    /\ openOk \in BOOLEAN
    /\ lineNum = 0
    /\ stats = Nil
    /\ pc = "open"
    /\ m = NewModel
    /\ pending = EmptyBag
    /\ ticks = 0
    /\ enteredFrom = "none"
    /\ meta = Nil /\ calcMsg = Nil /\ calcRow = Nil /\ cardIn = Nil /\ card = Nil
    /\ dirFiles = <<>> /\ listed = Nil
    /\ findIn = Nil /\ found = Nil /\ viewport = Nil /\ scrolled = Nil
    /\ sysProcs = Nil /\ procScan = Nil

\* os.Open
OpenFile ==
    /\ pc = "open"
    /\ IF openOk
       THEN stats' = NewStats(ParsePath) /\ pc' = "scan"
       ELSE stats' = Nil /\ pc' = "error"
    /\ UNCHANGED <<file, openOk, lineNum>>
    /\ UNCHANGED <<uiVars, meta, calcVars, listVars, findVars, scrollVars, procVars, cardVars>>

\* scanner.Scan() returns true: one pass of the loop body.
ScanLine ==
    /\ pc = "scan"
    /\ lineNum < Len(file)
    /\ ~file[lineNum + 1].tooLong
    /\ lineNum' = lineNum + 1
    /\ stats' = ProcessLine(stats, file[lineNum + 1])
    /\ UNCHANGED <<file, openOk, pc>>
    /\ UNCHANGED <<uiVars, meta, calcVars, listVars, findVars, scrollVars, procVars, cardVars>>

\* scanner.Scan() returns false with scanner.Err() set: return nil, err.
ScanError_skip ==
    /\ pc = "scan"
    /\ lineNum < Len(file)
    /\ file[lineNum + 1].tooLong
    /\ lineNum' = lineNum + 1
    /\ UNCHANGED <<file, openOk, stats, pc>>
    /\ UNCHANGED <<uiVars, meta, calcVars, listVars, findVars, scrollVars, procVars, cardVars>>
ScanError ==
    /\ pc = "scan"
    /\ lineNum < Len(file)
    /\ file[lineNum + 1].tooLong
    /\ stats' = Nil
    /\ pc' = "error"
    /\ UNCHANGED <<file, openOk, lineNum>>
    /\ UNCHANGED <<uiVars, meta, calcVars, listVars, findVars, scrollVars, procVars, cardVars>>

\* scanner.Scan() returns false at the end of the file: return stats, nil.
ScanEnd ==
    /\ pc = "scan"
    /\ lineNum = Len(file)
    /\ stats' = Finish(stats)
    /\ pc' = "done"
    /\ UNCHANGED <<file, openOk, lineNum>>
    /\ UNCHANGED <<uiVars, meta, calcVars, listVars, findVars, scrollVars, procVars, cardVars>>

NextParse == OpenFile \/ ScanLine \/ ScanError \/ ScanEnd

vars == <<parseVars, uiVars, meta, calcVars, listVars, findVars, scrollVars, procVars,
         cardVars>>

SpecParse == InitParse /\ [][NextParse]_vars

(***************************************************************************)
(* SpecMeta: GetSessionMetadata, one scanner step at a time.               *)
(***************************************************************************)
MUser(ts)      == StrEntry("user", ts, "2.1.25", "user", "hello")
MAssistant(ts) == ArrEntry("assistant", ts, "assistant", <<TextBlock("first")>>, Usage1)
MetaTimestamps == {1, 3601, 3602, 7202}
MetaLineSet ==
    {MUser(ts) : ts \in MetaTimestamps \cup {0, -1}}
    \cup {MAssistant(ts) : ts \in MetaTimestamps}
    \cup {Event("progress", 3601, "2.1.27"), LBadSyntax, LTooLong}

InitMeta ==
    /\ file \in SeqsUpTo(MetaLineSet, MaxLines)
    /\ openOk \in BOOLEAN
    /\ lineNum = 0
    /\ pc = "open"
    /\ meta = Nil
    /\ stats = Nil
    /\ m = NewModel
    /\ pending = EmptyBag
    /\ ticks = 0
    /\ enteredFrom = "none"
    /\ calcMsg = Nil /\ calcRow = Nil /\ cardIn = Nil /\ card = Nil
    /\ dirFiles = <<>> /\ listed = Nil
    /\ findIn = Nil /\ found = Nil /\ viewport = Nil /\ scrolled = Nil
    /\ sysProcs = Nil /\ procScan = Nil

\* os.Open
MetaOpen ==
    /\ pc = "open"
    /\ IF openOk
       THEN meta' = NewMeta /\ pc' = "scan"
       ELSE meta' = Nil /\ pc' = "error"
    /\ UNCHANGED <<file, openOk, lineNum, stats, uiVars, calcVars, listVars, findVars, scrollVars, procVars, cardVars>>

\* scanner.Scan() returns true: one pass of the loop body.
MetaScanLine ==
    /\ pc = "scan"
    /\ lineNum < Len(file)
    /\ ~file[lineNum + 1].tooLong
    /\ lineNum' = lineNum + 1
    /\ meta' = MetaLine(meta, file[lineNum + 1])
    /\ UNCHANGED <<file, openOk, pc, stats, uiVars, calcVars, listVars, findVars, scrollVars, procVars, cardVars>>

\* scanner.Scan() returns false with scanner.Err() set: return nil, err.
MetaScanError ==
    /\ pc = "scan"
    /\ lineNum < Len(file)
    /\ file[lineNum + 1].tooLong
    /\ meta' = Nil
    /\ pc' = "error"
    /\ UNCHANGED <<file, openOk, lineNum, stats, uiVars, calcVars, listVars, findVars, scrollVars, procVars, cardVars>>

\* The end of the file with no timestamp seen: return nil, err.
MetaNoTimestamps ==
    /\ pc = "scan"
    /\ lineNum = Len(file)
    /\ meta.firstTime = ZeroTime
    /\ meta' = Nil
    /\ pc' = "error"
    /\ UNCHANGED <<file, openOk, lineNum, stats, uiVars, calcVars, listVars, findVars, scrollVars, procVars, cardVars>>

\* The end of the file: return &SessionMetadata{...}, nil.
MetaEnd ==
    /\ pc = "scan"
    /\ lineNum = Len(file)
    /\ meta.firstTime # ZeroTime
    /\ meta' = MetaResult(meta)
    /\ pc' = "done"
    /\ UNCHANGED <<file, openOk, lineNum, stats, uiVars, calcVars, listVars, findVars, scrollVars, procVars, cardVars>>

NextMeta == MetaOpen \/ MetaScanLine \/ MetaScanError \/ MetaNoTimestamps \/ MetaEnd

SpecMeta == InitMeta /\ [][NextMeta]_vars

(***************************************************************************)
(* SpecCard: renderMessageCard of view.go, by the lines it joins.  A      *)
(* MessageRow's Content is the sequence of the byte lengths of the pieces  *)
(* strings.Split(msg.Content, "\n") gives (at least one piece).  A line of *)
(* the card is its kind and its length; header, metric and separator text  *)
(* holds no newline, and Render without a width keeps the line count.      *)
(***************************************************************************)
maxLines == 3
maxLineLength == 150
LineLengths == {0, maxLineLength + 1}
Contents == UNION {[1..n -> LineLengths] : n \in 1..MaxContentLines}
CardRows ==
    [Role : {"user", "assistant", "system"}, Content : Contents,
     InputTokens : 0..MaxTokens, OutputTokens : 0..MaxTokens]

CardLine(kind, length) == [kind |-> kind, length |-> length]

\* displayLines, a line over 150 bytes cut to line[:147] + "...", and the
\* "more lines" indicator appended to contentDisplay.
contentDisplay(contentLines) ==
    LET shown == IF Len(contentLines) < maxLines THEN Len(contentLines) ELSE maxLines
        displayLines ==
            [i \in 1..shown |->
                CardLine("content", IF contentLines[i] > maxLineLength
                                    THEN maxLineLength ELSE contentLines[i])]
    IN displayLines \o (IF Len(contentLines) > maxLines
                        THEN <<CardLine("more", 0)>> ELSE <<>>)

metricLines(msg) ==
    IF msg.Role = "assistant" /\ (msg.InputTokens > 0 \/ msg.OutputTokens > 0)
    THEN <<CardLine("metrics", 0)>>
         \o (IF msg.OutputTokens > 0 THEN <<CardLine("efficiency", 0)>> ELSE <<>>)
    ELSE IF msg.Role = "user" THEN <<CardLine("metrics", 0)>>
    ELSE <<>>

\* The lines of lipgloss.JoinVertical(lipgloss.Left, parts...).
renderMessageCard(msg, isSelected) ==
    <<CardLine("header", 0)>>
    \o contentDisplay(msg.Content)
    \o (IF Len(metricLines(msg)) > 0
        THEN <<CardLine("blank", 0)>> \o metricLines(msg) ELSE <<>>)
    \o (IF isSelected THEN <<CardLine("separator", 100)>> ELSE <<CardLine("blank", 0)>>)

InitCard ==
    /\ cardIn \in CardRows
    /\ card = Nil
    /\ file = <<>> /\ openOk = TRUE /\ lineNum = 0 /\ stats = Nil /\ pc = "open"
    /\ meta = Nil /\ calcMsg = Nil /\ calcRow = Nil
    /\ m = NewModel
    /\ pending = EmptyBag
    /\ ticks = 0
    /\ enteredFrom = "none"
    /\ dirFiles = <<>> /\ listed = Nil
    /\ findIn = Nil /\ found = Nil /\ viewport = Nil /\ scrolled = Nil
    /\ sysProcs = Nil /\ procScan = Nil

\* card := renderMessageCard(m.messages[i], isSelected)
RenderCard ==
    /\ card = Nil
    /\ \E isSelected \in BOOLEAN :
          card' = [isSelected |-> isSelected,
                   lines |-> renderMessageCard(cardIn, isSelected)]
    /\ UNCHANGED <<cardIn, parseVars, meta, uiVars, calcVars, listVars, findVars,
                   scrollVars, procVars>>

NextCard == RenderCard

SpecCard == InitCard /\ [][NextCard]_vars

(***************************************************************************)
(* SpecCalc: the cost and ratio computed for one message when its row is   *)
(* built.                                                                  *)
(***************************************************************************)
TokenMessages ==
    [Type : {"assistant_response", "prompt", "tool_result"},
     InputTokens : 0..MaxTokens, OutputTokens : 0..MaxTokens,
     CacheCreation : 0..MaxTokens, CacheRead : 0..MaxTokens]

InitCalc ==
    /\ calcMsg \in TokenMessages
    /\ calcRow = Nil
    /\ cardIn = Nil /\ card = Nil
    /\ file = <<>> /\ openOk = TRUE /\ lineNum = 0 /\ stats = Nil /\ pc = "open"
    /\ meta = Nil
    /\ m = NewModel
    /\ pending = EmptyBag
    /\ ticks = 0
    /\ enteredFrom = "none"
    /\ dirFiles = <<>> /\ listed = Nil
    /\ findIn = Nil /\ found = Nil /\ viewport = Nil /\ scrolled = Nil
    /\ sysProcs = Nil /\ procScan = Nil

\* cost, savings := calculateMessageCost(&msg)
\* ratio, outputPercent := calculateRatio(msg.InputTokens, msg.OutputTokens)
BuildRow ==
    /\ calcRow = Nil
    /\ LET c == calculateMessageCost(calcMsg)
           r == calculateRatio(calcMsg.InputTokens, calcMsg.OutputTokens)
       IN calcRow' = [Cost |-> c.cost, CacheSavings |-> c.savings,
                      InputOutputRatio |-> r.ratio, OutputPercentage |-> r.outputPercent]
    /\ UNCHANGED <<calcMsg, parseVars, meta, uiVars, listVars, findVars, scrollVars, procVars, cardVars>>

NextCalc == BuildRow

SpecCalc == InitCalc /\ [][NextCalc]_vars

(***************************************************************************)
(* SpecList: loadSessionsFromProject over a bounded project directory.     *)
(***************************************************************************)
FileNames == <<"f1", "f2", "f3", "f4", "f5">>
ListModTimes == {60, 119, 120, 185}
DirListings ==
    UNION {{[i \in 1..n |-> [name |-> FileNames[i], modTime |-> d[i].modTime,
                            isSession |-> d[i].isSession]] :
               d \in [1..n -> [modTime : ListModTimes, isSession : BOOLEAN]]} :
           n \in 0..MaxFiles}

InitList ==
    /\ dirFiles \in DirListings
    /\ listed = Nil
    /\ findIn = Nil /\ found = Nil /\ viewport = Nil /\ scrolled = Nil
    /\ sysProcs = Nil /\ procScan = Nil
    /\ file = <<>> /\ openOk = TRUE /\ lineNum = 0 /\ stats = Nil /\ pc = "open"
    /\ meta = Nil /\ calcMsg = Nil /\ calcRow = Nil /\ cardIn = Nil /\ card = Nil
    /\ m = NewModel
    /\ pending = EmptyBag
    /\ ticks = 0
    /\ enteredFrom = "none"

\* os.ReadDir fails: sessionsMsg{err}.
ListFails ==
    /\ listed = Nil
    /\ listed' = [sessions |-> <<>>, err |-> "cannot read project directory"]
    /\ UNCHANGED <<dirFiles, parseVars, meta, uiVars, calcVars, findVars, scrollVars, procVars, cardVars>>

\* os.ReadDir succeeds: the entries are collected and sorted.
ListProject ==
    /\ listed = Nil
    /\ listed' = [sessions |-> SortOuter(SessionInfosOf(dirFiles, 1), 1), err |-> ""]
    /\ UNCHANGED <<dirFiles, parseVars, meta, uiVars, calcVars, findVars, scrollVars, procVars, cardVars>>

NextList == ListFails \/ ListProject

SpecList == InitList /\ [][NextList]_vars

(***************************************************************************)
(* SpecFind: loadSessions for the working directory of a process, over a   *)
(* projects root that holds one directory with the entries dirFiles, and   *)
(* the sessionsMsg handler on the message it returns.                      *)
(***************************************************************************)
\* readSessionFile on a session file none of whose first lines carries an id,
\* title or updatedAt key: the ID is the file name, the times are the
\* modification time.
readSessionFile(dirName, entry) ==
    [ID |-> entry.name, CreatedAt |-> entry.modTime, UpdatedAt |-> entry.modTime,
     FilePath |-> <<dirName, entry.name>>]

GetSessionTime(s) ==
    IF s.UpdatedAt # ZeroTime THEN FormatMinute(s.UpdatedAt) ELSE FormatMinute(s.CreatedAt)

\* The loop over the directory entries: the .jsonl files, in directory order.
RECURSIVE SessionsOf(_, _, _)
SessionsOf(dirName, entries, i) ==
    IF i > Len(entries) THEN <<>>
    ELSE (IF entries[i].isSession THEN <<readSessionFile(dirName, entries[i])>> ELSE <<>>)
         \o SessionsOf(dirName, entries, i + 1)

FindSessionsIn_missingIsError(workingDir, root, entries) ==
    LET dirName == convertPathToSessionDirName(workingDir)
    IN IF root.name # dirName \/ ~root.readable
       THEN [dirName |-> dirName, sessions |-> <<>>, err |-> "failed to read session directory"]
       ELSE [dirName |-> dirName, sessions |-> SessionsOf(dirName, entries, 1), err |-> ""]
\* FindSessionsForDirectory against a projects root whose one directory is
\* root, with the given entries.
FindSessionsIn(workingDir, root, entries) ==
    LET dirName == convertPathToSessionDirName(workingDir)
    IN IF root.name # dirName
       THEN [dirName |-> dirName, sessions |-> <<>>, err |-> ""]
       ELSE IF ~root.readable
       THEN [dirName |-> dirName, sessions |-> <<>>, err |-> "failed to read session directory"]
       ELSE [dirName |-> dirName, sessions |-> SessionsOf(dirName, entries, 1), err |-> ""]

\* The closure of loadSessions: the sessions found, converted for display in
\* the order FindSessionsForDirectory returned them.
loadSessionsIn(workingDir, root, entries) ==
    LET r == FindSessionsIn(workingDir, root, entries)
    IN [dirName |-> r.dirName, err |-> r.err,
        sessions |-> [i \in 1..Len(r.sessions) |->
                         [ID |-> r.sessions[i].ID, Path |-> r.sessions[i].FilePath,
                          Updated |-> GetSessionTime(r.sessions[i])]]]

WorkingDirs == {<<"work", "a">>, <<"work">>}
RootNames == {"-work-a", "work-a", "work"}
StaleSession == [ID |-> "old", Path |-> <<"-work-b", "old">>, Updated |-> 1]
\* The model when Enter is pressed on a process: fresh, or with the list and
\* the error message an earlier visit of ViewSessions left behind.
PriorModels ==
    {[NewModel EXCEPT !.viewMode = ViewSessions],
     [NewModel EXCEPT !.viewMode = ViewSessions, !.sessions = <<StaleSession>>,
                      !.sessionError = "cannot read project directory"]}

InitFind ==
    /\ dirFiles \in DirListings
    /\ findIn \in [workingDir : WorkingDirs,
                   root : [name : RootNames, readable : BOOLEAN],
                   model : PriorModels]
    /\ found = Nil
    /\ listed = Nil
    /\ viewport = Nil /\ scrolled = Nil /\ sysProcs = Nil /\ procScan = Nil
    /\ file = <<>> /\ openOk = TRUE /\ lineNum = 0 /\ stats = Nil /\ pc = "open"
    /\ meta = Nil /\ calcMsg = Nil /\ calcRow = Nil /\ cardIn = Nil /\ card = Nil
    /\ m = NewModel
    /\ pending = EmptyBag
    /\ ticks = 0
    /\ enteredFrom = "none"

\* The command loadSessions returned runs to its sessionsMsg.
FindLoad ==
    /\ found = Nil
    /\ found' = [msg |-> loadSessionsIn(findIn.workingDir, findIn.root, dirFiles),
                 model |-> Nil]
    /\ UNCHANGED <<findIn, parseVars, meta, uiVars, calcVars, listVars, scrollVars, procVars, cardVars>>

\* Update handles the sessionsMsg.
FindDeliver ==
    /\ found # Nil
    /\ found.model = Nil
    /\ found' = [found EXCEPT !.model = SessionsUpdate(findIn.model, found.msg.sessions,
                                                       found.msg.err)]
    /\ UNCHANGED <<findIn, parseVars, meta, uiVars, calcVars, listVars, scrollVars, procVars, cardVars>>

NextFind == FindLoad \/ FindDeliver

SpecFind == InitFind /\ [][NextFind]_vars

(***************************************************************************)
(* SpecScroll: scrollToSelection over a bounded message list and viewport. *)
(***************************************************************************)
linesPerCard == 4

\* viewport.Model.GotoTop and LineDown on a viewport whose content is lines
\* lines long: LineDown does nothing at the bottom or for n = 0, and keeps the
\* offset within the content.
GotoTop(vp) == [vp EXCEPT !.YOffset = 0]
MaxYOffset(vp, lines) == IF lines - vp.Height > 0 THEN lines - vp.Height ELSE 0
LineDown(vp, lines, n) ==
    IF vp.YOffset >= MaxYOffset(vp, lines) \/ n = 0 \/ lines = 0 THEN vp
    ELSE [vp EXCEPT !.YOffset =
             IF vp.YOffset + n > MaxYOffset(vp, lines) THEN MaxYOffset(vp, lines)
             ELSE IF vp.YOffset + n < 0 THEN 0 ELSE vp.YOffset + n]

scrollToSelection_topAligned(v) ==
    IF v.count = 0 \/ v.selectedMessageIdx < 0
    THEN [returned |-> TRUE, targetTopLine |-> 0, view |-> v]
    ELSE LET target == v.selectedMessageIdx * linesPerCard
             maxOffset == IF v.count * linesPerCard - v.Height < 0 THEN 0
                          ELSE v.count * linesPerCard - v.Height
             clamped == IF target < 0 THEN 0
                        ELSE IF target > maxOffset THEN maxOffset ELSE target
         IN [returned |-> FALSE, targetTopLine |-> clamped,
             view |-> [LineDown(GotoTop(v), v.count * linesPerCard, clamped)
                          EXCEPT !.lastMessageIdx = v.selectedMessageIdx]]
\* A scrollToSelection that puts the card's first line at the middle line.
scrollToSelection_firstLineCentred(v) ==
    IF v.count = 0 \/ v.selectedMessageIdx < 0
    THEN [returned |-> TRUE, targetTopLine |-> 0, view |-> v]
    ELSE LET target == v.selectedMessageIdx * linesPerCard - (v.Height \div 2)
             maxOffset == IF v.count * linesPerCard - v.Height < 0 THEN 0
                          ELSE v.count * linesPerCard - v.Height
             clamped == IF target < 0 THEN 0
                        ELSE IF target > maxOffset THEN maxOffset ELSE target
         IN [returned |-> FALSE, targetTopLine |-> clamped,
             view |-> [LineDown(GotoTop(v), v.count * linesPerCard, clamped)
                          EXCEPT !.lastMessageIdx = v.selectedMessageIdx]]

\* scrollToSelection on the view v: the messages' count, the selection, and
\* the viewport's Height and YOffset.  The height is not negative, so Go's
\* Height / 2 is the floor.
scrollToSelection(v) ==
    IF v.count = 0 \/ v.selectedMessageIdx < 0
    THEN [returned |-> TRUE, targetTopLine |-> 0, view |-> v]
    ELSE LET selectedCardLineOffset == v.selectedMessageIdx * linesPerCard
             targetTopLine == selectedCardLineOffset - (v.Height \div 2) + 2
             totalContentLines == v.count * linesPerCard
             maxOffset == IF totalContentLines - v.Height < 0 THEN 0
                          ELSE totalContentLines - v.Height
             clamped == IF targetTopLine < 0 THEN 0
                        ELSE IF targetTopLine > maxOffset THEN maxOffset
                        ELSE targetTopLine
         IN [returned |-> FALSE, targetTopLine |-> clamped,
             view |-> [LineDown(GotoTop(v), totalContentLines, clamped)
                          EXCEPT !.lastMessageIdx = v.selectedMessageIdx]]

InitScroll ==
    /\ viewport \in [count : 0..MaxCards, selectedMessageIdx : -1..MaxCards,
                     Height : 0..MaxHeight, YOffset : 0..2, lastMessageIdx : {0}]
    /\ scrolled = Nil
    /\ findIn = Nil /\ found = Nil /\ sysProcs = Nil /\ procScan = Nil
    /\ dirFiles = <<>> /\ listed = Nil
    /\ file = <<>> /\ openOk = TRUE /\ lineNum = 0 /\ stats = Nil /\ pc = "open"
    /\ meta = Nil /\ calcMsg = Nil /\ calcRow = Nil /\ cardIn = Nil /\ card = Nil
    /\ m = NewModel
    /\ pending = EmptyBag
    /\ ticks = 0
    /\ enteredFrom = "none"

ScrollToSelection ==
    /\ scrolled = Nil
    /\ scrolled' = scrollToSelection(viewport)
    /\ UNCHANGED <<viewport, parseVars, meta, uiVars, calcVars, listVars, findVars, procVars, cardVars>>

NextScroll == ScrollToSelection

SpecScroll == InitScroll /\ [][NextScroll]_vars

(***************************************************************************)
(* SpecProcs: FindClaudeProcesses over the processes of the system, one    *)
(* loop iteration at a time.                                               *)
(***************************************************************************)
\* How the lookup of a process's working directory ends: the directory, or
\* the step of getWorkingDir that failed.
CwdOutcomes == {"ok", "permission", "readlink", "stat", "notdir"}

\* getWorkingDir: the directory and the error ("" for nil).
getWorkingDir(proc) ==
    CASE proc.cwd = "permission" -> [cwd |-> "", err |-> "permission denied"]
      [] proc.cwd = "readlink"   -> [cwd |-> "", err |-> "cannot read cwd"]
      [] proc.cwd = "stat"       -> [cwd |-> "", err |-> "cannot stat cwd"]
      [] proc.cwd = "notdir"     -> [cwd |-> "", err |-> "cwd is not a directory"]
      [] OTHER                   -> [cwd |-> "/work/a", err |-> ""]

\* collectMetrics: the record built for a process.
collectMetrics(proc, isHelper) ==
    LET r == getWorkingDir(proc)
    IN [PID |-> proc.pid,
        WorkingDir |-> IF r.err # "" THEN "[Permission Denied]" ELSE r.cwd,
        IsHelper |-> isHelper]

\* hasActiveSessions: some sessions-index.json under the projects root
\* mentions the working directory.
hasActiveSessions(proc, workingDir) ==
    IF workingDir = "[Permission Denied]" \/ workingDir = "" THEN FALSE
    ELSE proc.indexed

SystemProcesses ==
    {ps \in SeqsUpTo([pid : {101, 102, 103, 104}, isClaude : BOOLEAN, isHelper : BOOLEAN,
                      cwd : CwdOutcomes, indexed : BOOLEAN], MaxProcs) :
        \A i \in 1..Len(ps) : ps[i].pid = 100 + i}

InitProcs ==
    /\ sysProcs \in [procs : SystemProcesses, showHelpers : BOOLEAN]
    /\ procScan = [i |-> 0, metrics |-> Nil, claudeProcesses |-> <<>>, pc |-> "list", err |-> ""]
    /\ findIn = Nil /\ found = Nil /\ viewport = Nil /\ scrolled = Nil
    /\ dirFiles = <<>> /\ listed = Nil
    /\ file = <<>> /\ openOk = TRUE /\ lineNum = 0 /\ stats = Nil /\ pc = "open"
    /\ meta = Nil /\ calcMsg = Nil /\ calcRow = Nil /\ cardIn = Nil /\ card = Nil
    /\ m = NewModel
    /\ pending = EmptyBag
    /\ ticks = 0
    /\ enteredFrom = "none"

ProcsUnchanged ==
    UNCHANGED <<sysProcs, parseVars, meta, uiVars, calcVars, listVars, findVars, scrollVars, cardVars>>

\* process.Processes() fails: nil and the error.
ProcessesFail ==
    /\ procScan.pc = "list"
    /\ procScan' = [procScan EXCEPT !.pc = "error", !.err = "failed to get processes"]
    /\ ProcsUnchanged

\* process.Processes() returns the processes.
ProcessesListed ==
    /\ procScan.pc = "list"
    /\ procScan' = [procScan EXCEPT !.pc = "scan"]
    /\ ProcsUnchanged

\* One iteration of the loop over the processes.
ScanProcess ==
    /\ procScan.pc = "scan"
    /\ procScan.i < Len(sysProcs.procs)
    /\ LET proc == sysProcs.procs[procScan.i + 1]
           claudeProc == collectMetrics(proc, proc.isHelper)
       IN procScan' =
             IF ~proc.isClaude \/ (proc.isHelper /\ ~sysProcs.showHelpers)
             THEN [procScan EXCEPT !.i = @ + 1, !.metrics = Nil]
             ELSE IF ~hasActiveSessions(proc, claudeProc.WorkingDir)
             THEN [procScan EXCEPT !.i = @ + 1, !.metrics = claudeProc]
             ELSE [procScan EXCEPT !.i = @ + 1, !.metrics = claudeProc,
                                   !.claudeProcesses = Append(@, claudeProc)]
    /\ ProcsUnchanged

\* The loop is over: the processes found and no error.
ScanReturn ==
    /\ procScan.pc = "scan"
    /\ procScan.i = Len(sysProcs.procs)
    /\ procScan' = [procScan EXCEPT !.pc = "done"]
    /\ ProcsUnchanged

NextProcs == ProcessesFail \/ ProcessesListed \/ ScanProcess \/ ScanReturn

SpecProcs == InitProcs /\ [][NextProcs]_vars

(***************************************************************************)
(* Spec: the Bubble Tea event loop.  One action per message Update         *)
(* receives; a command's message is delivered at any later time, in any    *)
(* order.                                                                  *)
(***************************************************************************)
RECURSIVE Loads(_, _)
Loads(cmds, i) ==
    IF i > Len(cmds) THEN EmptyBag
    ELSE (IF cmds[i].kind = "tick" THEN EmptyBag ELSE SetToBag({cmds[i]}))
         (+) Loads(cmds, i + 1)
Ticks(cmds) == Cardinality({i \in 1..Len(cmds) : cmds[i].kind = "tick"})

\* Model.Init: tea.Batch(m.refreshProcesses(), m.tick())
Init ==
    /\ m = NewModel
    /\ pending = SetToBag({refreshProcesses})
    /\ ticks = 1
    /\ enteredFrom = "none"
    /\ file = <<>> /\ openOk = TRUE /\ lineNum = 0 /\ stats = Nil /\ pc = "open"
    /\ meta = Nil /\ calcMsg = Nil /\ calcRow = Nil /\ cardIn = Nil /\ card = Nil
    /\ dirFiles = <<>> /\ listed = Nil
    /\ findIn = Nil /\ found = Nil /\ viewport = Nil /\ scrolled = Nil
    /\ sysProcs = Nil /\ procScan = Nil

\* The history variable: set when a list view hands over to ViewSessions.
Observe ==
    enteredFrom' = IF m.viewMode \in {ViewProcesses, ViewProjects}
                      /\ m'.viewMode = ViewSessions
                   THEN m.viewMode ELSE enteredFrom

\* Update returned r: the new model, and its commands started.
Returns(r) ==
    /\ BagCardinality(pending (+) Loads(r.cmds, 1)) <= MaxPending
    /\ m' = r.m
    /\ pending' = pending (+) Loads(r.cmds, 1)
    /\ ticks' = ticks + Ticks(r.cmds)
    /\ Observe
    /\ UNCHANGED <<parseVars, meta, calcVars, listVars, findVars, scrollVars, procVars, cardVars>>

\* The message of the finished command c was handled, giving model mm.
Delivered(c, mm) ==
    /\ m' = mm
    /\ pending' = pending (-) SetToBag({c})
    /\ ticks' = ticks
    /\ Observe
    /\ UNCHANGED <<parseVars, meta, calcVars, listVars, findVars, scrollVars, procVars, cardVars>>

Running == ~m.quitting
InFlight(kinds) == {c \in BagToSet(pending) : c.kind \in kinds}

KeyQuit   == Running /\ Returns(KeyQuitUpdate(m))
KeyEsc    == Running /\ Returns(KeyEscUpdate(m))
KeyR      == Running /\ Returns(KeyRUpdate(m))
KeyF      == Running /\ Returns(KeyFUpdate(m))
KeyP      == Running /\ Returns(KeyPUpdate(m))
KeyU      == Running /\ Returns(KeyFilterUpdate(m, FilterUserOnly))
KeyA      == Running /\ Returns(KeyFilterUpdate(m, FilterAssistantOnly))
KeyB      == Running /\ Returns(KeyFilterUpdate(m, FilterAll))
KeyS      == Running /\ Returns(KeySUpdate(m))
KeyEnter  == Running /\ Returns(KeyEnterUpdate(m))
KeyNav    == Running /\ \E key \in {"up", "down", "home", "end", "pgup", "pgdn", "left", "right"} :
                 Returns(Ret(KeyNavUpdate(m, key), <<>>))

WindowSize == Running /\ \E height \in Heights : Returns(Ret(WindowSizeUpdate(m, height), <<>>))

Tick ==
    /\ Running
    /\ ticks > 0
    /\ LET r == TickUpdate(m)
       IN /\ BagCardinality(pending (+) Loads(r.cmds, 1)) <= MaxPending
          /\ m' = r.m
          /\ pending' = pending (+) Loads(r.cmds, 1)
          /\ ticks' = ticks - 1 + Ticks(r.cmds)
          /\ Observe
          /\ UNCHANGED <<parseVars, meta, calcVars, listVars, findVars, scrollVars, procVars, cardVars>>

\* refreshProcesses finished: monitor.FindClaudeProcesses returned a snapshot,
\* or nil and an error.
RefreshFailed(c) == Delivered(c, ProcessesUpdate(m, <<>>, "failed to get processes"))
ProcessesMsg ==
    /\ Running
    /\ \E c \in InFlight({"processes"}) :
          \/ \E snapshot \in ProcessSnapshots :
                Delivered(c, ProcessesUpdate(m, snapshot, ""))
          \/ RefreshFailed(c)

\* loadSessions or loadSessionsFromProject finished.
SessionsMsg ==
    /\ Running
    /\ \E c \in InFlight({"sessions", "projectSessions"}) :
          \/ Delivered(c, SessionsUpdate(m,
                             IF c.kind = "sessions" THEN FindSessionsForDirectory(c.arg)
                             ELSE loadSessionsFromProject(c.arg[1]), ""))
          \/ Delivered(c, SessionsUpdate(m, <<>>,
                             IF c.kind = "sessions" THEN "failed to read session directory"
                             ELSE "cannot read project directory"))

\* loadSessionDetail finished: ParseSessionFile on the path it was started for.
SessionDetailMsg ==
    /\ Running
    /\ \E c \in InFlight({"sessionDetail"}) :
          \/ LET r == ParseSessionFile(c.arg, FileLines(c.arg))
             IN Delivered(c, SessionDetailUpdate(m, r.stats,
                               IF r.err THEN "error reading session file" ELSE ""))
          \/ Delivered(c, SessionDetailUpdate(m, Nil, "failed to open session file"))

\* loadProjects finished.
ProjectsMsg ==
    /\ Running
    /\ \E c \in InFlight({"projects"}) :
          \/ \E snapshot \in ProjectSnapshots :
                Delivered(c, ProjectsUpdate(m, snapshot, ""))
          \/ Delivered(c, ProjectsUpdate(m, <<>>, "cannot read projects directory"))

Next ==
    \/ KeyQuit \/ KeyEsc \/ KeyR \/ KeyF \/ KeyP \/ KeyU \/ KeyA \/ KeyB \/ KeyS
    \/ KeyEnter \/ KeyNav \/ WindowSize \/ Tick
    \/ ProcessesMsg \/ SessionsMsg \/ SessionDetailMsg \/ ProjectsMsg

Spec == Init /\ [][Next]_vars

(***************************************************************************)
(* Properties of ParseSessionFile (checked under SpecParse)                *)
(***************************************************************************)
IsDecodable(line) == line.ok
Scanned == pc \in {"scan", "done"} /\ lineNum >= 1
LastLine == file[lineNum]
LastMessage == stats.MessageHistory[Len(stats.MessageHistory)]
IsMessageEntry(line) ==
    line.ok /\ line.type \in {"user", "assistant"} /\ line.hasMessage
BlocksOfType(line, t) == {i \in 1..Len(line.blocks) : line.blocks[i].type = t /\ line.blocks[i].isStr}

\* C1: a line that fails JSON decoding is skipped without aborting: a file that
\* opens and has no over-long line is aggregated without error, and the result
\* is the one of the same file with its undecodable lines removed.
C1_MalformedLinesSkipped ==
    /\ (pc = "error" => ~openOk \/ \E i \in 1..Len(file) : file[i].tooLong)
    /\ (pc = "done" =>
           LET clean == ParseSessionFile(ParsePath, SelectSeq(file, IsDecodable))
           IN ~clean.err /\ stats = clean.stats)

C1_Witness ==
    /\ pc = "done"
    /\ Len(file) = 3
    /\ ~file[2].ok /\ file[2].hasMessage
    /\ file[1].ok /\ file[3].ok
    /\ Len(stats.MessageHistory) = 2

\* C8: an entry whose content is a non-empty plain string becomes a Message of
\* kind prompt for role user and of kind assistant_response for role assistant.
C8_StringContentKind ==
    (/\ Scanned
     /\ IsMessageEntry(LastLine)
     /\ LastLine.role \in {"user", "assistant"}
     /\ LastLine.contentKind = "string"
     /\ LastLine.contentStr # "")
    => /\ Len(stats.MessageHistory) >= 1
       /\ LastMessage.Content = LastLine.contentStr
       /\ LastMessage.Type = IF LastLine.role = "user" THEN "prompt" ELSE "assistant_response"

\* C9: for an assistant entry with several text blocks, the Message content is
\* the text of the first text block in source order.
C9_FirstTextBlockWins ==
    (/\ Scanned
     /\ IsMessageEntry(LastLine)
     /\ LastLine.role = "assistant"
     /\ LastLine.contentKind = "array"
     /\ Cardinality(BlocksOfType(LastLine, "text")) >= 2)
    => /\ Len(stats.MessageHistory) >= 1
       /\ LET first == CHOOSE i \in BlocksOfType(LastLine, "text") :
                           \A j \in BlocksOfType(LastLine, "text") : i <= j
          IN LastMessage.Content = LastLine.blocks[first].str

\* C10: for an assistant entry with tool_use blocks (each with an input map) and
\* no text block, the Message names one of the tool_use blocks in toolName, holds
\* that block's serialized input in toolArguments, and its content is the
\* non-empty placeholder naming that same toolName.
C10_ToolUsePlaceholder ==
    (/\ Scanned
     /\ IsMessageEntry(LastLine)
     /\ LastLine.role = "assistant"
     /\ LastLine.contentKind = "array"
     /\ BlocksOfType(LastLine, "tool_use") # {}
     /\ \A i \in BlocksOfType(LastLine, "tool_use") : LastLine.blocks[i].hasInput
     /\ BlocksOfType(LastLine, "text") = {})
    => /\ Len(stats.MessageHistory) >= 1
       /\ \E i \in BlocksOfType(LastLine, "tool_use") :
             /\ LastMessage.ToolName = LastLine.blocks[i].str
             /\ LastMessage.ToolInput = Marshal(LastLine.blocks[i].input)
       /\ LastMessage.Content # ""
       /\ LastMessage.Content = "Called tool: " \o LastMessage.ToolName

\* C11: every Message of the history has non-empty content or a non-empty tool
\* name, and a user or assistant entry that resolves to nothing (an empty
\* string, only thinking blocks, no block its role recognises) emits no Message.
RecognisedBlocks(line) ==
    {i \in 1..Len(line.blocks) :
        /\ line.blocks[i].isStr
        /\ \/ line.role = "user" /\ line.blocks[i].type = "tool_result"
           \/ line.role = "assistant" /\ line.blocks[i].type \in {"text", "tool_use"}}
ResolvesEmpty(line) ==
    /\ IsMessageEntry(line)
    /\ \/ line.contentKind = "string" /\ line.contentStr = ""
       \/ line.contentKind = "array" /\ RecognisedBlocks(line) = {}
       \/ line.contentKind = "other"
C11_MessagesHaveContent ==
    [][lineNum' = lineNum + 1 =>
         /\ \A i \in 1..Len(stats'.MessageHistory) :
                stats'.MessageHistory[i].Content # "" \/ stats'.MessageHistory[i].ToolName # ""
         /\ (ResolvesEmpty(file[lineNum']) =>
                stats'.MessageHistory = stats.MessageHistory)]_vars

C11_Witness ==
    /\ pc = "done"
    /\ file = <<LAsstThinking, LUserEmpty, LAsstTool>>
    /\ stats.TotalMessages = 3
    /\ Len(stats.MessageHistory) = 1

\* C12: whatever the order of the entries and whichever timestamps are missing
\* or unparseable, the duration ParseSessionFile returns is not negative.
C12_DurationNonNegative == pc \in {"scan", "done"} => stats.Duration >= 0

C12_Witness ==
    /\ pc = "done"
    /\ Len(file) = 3
    /\ file[1].timestamp > file[3].timestamp /\ file[3].timestamp >= 1
    /\ file[2].timestamp = -1
    /\ stats.Duration > 0

\* C13: after aggregation CreatedAt is the minimum and LastActivity the maximum
\* of the valid timestamps of the decoded entries, whatever their order and
\* whatever entries without a timestamp lie between them.
ValidTimestamps ==
    {file[i].timestamp : i \in {j \in 1..Len(file) : file[j].ok /\ file[j].timestamp >= 1}}
C13_CreatedMinLastMax ==
    (pc = "done" /\ ValidTimestamps # {})
    => /\ \A t \in ValidTimestamps : stats.CreatedAt <= t /\ t <= stats.LastActivity
       /\ stats.CreatedAt \in ValidTimestamps
       /\ stats.LastActivity \in ValidTimestamps

\* C14: the history holds at most as many Messages as the user and assistant
\* entries the same aggregation counted.
C14_HistoryWithinCounters ==
    pc \in {"scan", "done"}
    => Len(stats.MessageHistory) <= stats.UserMessages + stats.AssistantMessages

\* C18: when the file cannot be opened or the scan fails (a line over the
\* maximum line size), ParseSessionFile returns an error and no stats, and the
\* failing line is not skipped: no result is returned for such a file.
C18_ReadFailureAborts ==
    /\ (pc = "error" => stats = Nil)
    /\ (pc = "done" => openOk /\ \A i \in 1..Len(file) : ~file[i].tooLong)
    /\ (pc \in {"scan", "done"} => \A i \in 1..lineNum : ~file[i].tooLong)

C18_Witness ==
    /\ pc = "error"
    /\ openOk
    /\ Len(file) = 3 /\ lineNum = 1
    /\ file[1] = LUserHello /\ file[2].tooLong
    /\ stats = Nil

\* The line without its blocks of type t.
WithoutBlocks(line, t) ==
    [line EXCEPT !.blocks = SelectSeq(line.blocks, LAMBDA b : b.type # t)]
FirstOf(S) == CHOOSE i \in S : \A j \in S : i <= j

\* C30: a Message of kind tool_result comes only from a user-role entry, with
\* the text of the entry's first tool_result block that has text content; the
\* tool_result blocks of an assistant-role entry contribute neither content
\* nor kind: the entry is aggregated as if they were not there.
C30_ToolResultOnlyInUserEntry ==
    [][lineNum' = lineNum + 1 =>
         LET line    == file[lineNum']
             emitted == Len(stats'.MessageHistory) > Len(stats.MessageHistory)
             msg     == stats'.MessageHistory[Len(stats'.MessageHistory)]
             results == BlocksOfType(line, "tool_result")
         IN /\ (emitted /\ msg.Type = "tool_result")
               => /\ line.role = "user"
                  /\ results # {}
                  /\ msg.Content = line.blocks[FirstOf(results)].str
            /\ (IsMessageEntry(line) /\ line.role = "assistant" /\ line.contentKind = "array")
               => /\ stats' = ProcessLine(stats, WithoutBlocks(line, "tool_result"))
                  /\ emitted => msg.Type # "tool_result"]_vars

C30_Witness ==
    /\ pc = "done"
    /\ file = <<LUserResult, LAsstResult>>
    /\ Len(stats.MessageHistory) = 1
    /\ stats.MessageHistory[1].Type = "tool_result"
    /\ stats.MessageHistory[1].Content = "out"
    /\ stats.AssistantMessages = 1

\* The kinds a filter lets through.
FilterKinds(filter) ==
    CASE filter = FilterUserOnly      -> {"prompt"}
      [] filter = FilterAssistantOnly -> {"assistant_response", "tool_result"}
      [] OTHER                        -> {stats.MessageHistory[i].Type :
                                             i \in 1..Len(stats.MessageHistory)}
IsOfFilter(filter, msg) == msg.Type \in FilterKinds(filter)

\* The session detail view holding the aggregated stats, before a filter key.
DetailModels ==
    {[NewModel EXCEPT !.viewMode = ViewSessionDetail, !.sessionStats = stats,
                      !.messageFilter = f, !.messageSortNewestFirst = newestFirst]
        : f \in {FilterAll, FilterUserOnly, FilterAssistantOnly}, newestFirst \in BOOLEAN}
Filters == {FilterAll, FilterUserOnly, FilterAssistantOnly}
DisplayedMessages(mm) ==
    IF mm.messageSortNewestFirst THEN Reverse(mm.messages) ELSE mm.messages

\* C24: the filtered view is determined by the aggregated messages and the
\* filter: UserOnly keeps exactly the prompts, AssistantOnly exactly the
\* assistant responses and tool results, All everything, in file order; the
\* rows and the count the filter keys leave are those of that sequence, and a
\* filter key pressed a second time changes nothing.
C24_FilteredViewIsFunction ==
    (pc = "done")
    => \A mm \in DetailModels, f \in Filters :
          LET once     == KeyFilterUpdate(mm, f).m
              twice    == KeyFilterUpdate(once, f).m
              expected == SelectSeq(stats.MessageHistory, LAMBDA msg : IsOfFilter(f, msg))
          IN /\ getFilteredMessages(once, stats) = expected
             /\ once.filteredMessageCount = Len(expected)
             /\ Len(once.messages) = Len(expected)
             /\ \A i \in 1..Len(expected) :
                   /\ DisplayedMessages(once)[i].Content = expected[i].Content
                   /\ DisplayedMessages(once)[i].Role = expected[i].Role
                   /\ DisplayedMessages(once)[i].Time = expected[i].Timestamp
             /\ twice = once

C24_Witness ==
    /\ pc = "done"
    /\ \E i, j, k \in 1..Len(stats.MessageHistory) :
          /\ stats.MessageHistory[i].Type = "prompt"
          /\ stats.MessageHistory[j].Type = "tool_result"
          /\ stats.MessageHistory[k].Type = "assistant_response"

\* C31: every Message of the aggregated history has a role among user and
\* assistant and a kind among prompt, assistant_response and tool_result,
\* whatever role strings the log entries carry.
C31_RolesAndKinds ==
    pc \in {"scan", "done"}
    => \A i \in 1..Len(stats.MessageHistory) :
          /\ stats.MessageHistory[i].Role \in {"user", "assistant"}
          /\ stats.MessageHistory[i].Type \in {"prompt", "assistant_response", "tool_result"}

\* The number of rows the detail view shows for the aggregated stats under
\* the filter f.
CountUnder(f) ==
    updateMessageTable([NewModel EXCEPT !.viewMode = ViewSessionDetail,
                                        !.sessionStats = stats,
                                        !.messageFilter = f]).filteredMessageCount

\* C40: UserOnly and AssistantOnly partition the aggregated messages: each
\* Message is kept by exactly one of the two filters, and the two counts add
\* up to the count under All.
C40_FiltersPartition ==
    pc = "done"
    => /\ \A i \in 1..Len(stats.MessageHistory) :
             KeepsMessage(FilterUserOnly, stats.MessageHistory[i])
             # KeepsMessage(FilterAssistantOnly, stats.MessageHistory[i])
       /\ CountUnder(FilterUserOnly) + CountUnder(FilterAssistantOnly) = CountUnder(FilterAll)
       /\ CountUnder(FilterAll) = Len(stats.MessageHistory)

C40_Witness ==
    /\ pc = "done"
    /\ CountUnder(FilterUserOnly) = 2
    /\ CountUnder(FilterAssistantOnly) = 1
    /\ \E i \in 1..Len(stats.MessageHistory) : stats.MessageHistory[i].Role = "system"
    /\ \E i \in 1..Len(stats.MessageHistory) : stats.MessageHistory[i].Type = "tool_result"

(***************************************************************************)
(* Properties of GetSessionMetadata (checked under SpecMeta)               *)
(***************************************************************************)
IsTimedMessage(line) ==
    line.ok /\ line.timestamp >= 1 /\ line.type \in {"user", "assistant"}
TimedMessages == SelectSeq(file, IsTimedMessage)

\* C15: the interruption count of the metadata pass is the number of pairs of
\* consecutive user/assistant entries more than one hour apart: a gap of
\* exactly 3600 s is not counted, a gap of 3601 s is.
C15_InterruptionsOverOneHour ==
    pc = "done" =>
        meta.Interruptions =
            Cardinality({i \in 1..(Len(TimedMessages) - 1) :
                TimedMessages[i + 1].timestamp - TimedMessages[i].timestamp > 3600})

C15_Witness ==
    /\ pc = "done"
    /\ Len(file) = 3
    /\ file[1].timestamp = 1 /\ file[2].timestamp = 3601 /\ file[3].timestamp = 7202
    /\ \A i \in 1..3 : IsTimedMessage(file[i])
    /\ meta.Interruptions = 1

\* C39: whenever the metadata pass succeeds, the session did not end before
\* it started and its duration is not negative, also for entries whose
\* timestamps are out of chronological order.
C39_StartedBeforeEnded ==
    (pc = "done" /\ meta # Nil) => meta.Started <= meta.Ended /\ meta.Duration >= 0

(***************************************************************************)
(* Properties of the cost and ratio arithmetic (checked under SpecCalc)    *)
(***************************************************************************)
AddTokens(a, b) ==
    [a EXCEPT !.InputTokens = @ + b.InputTokens, !.OutputTokens = @ + b.OutputTokens,
              !.CacheCreation = @ + b.CacheCreation, !.CacheRead = @ + b.CacheRead]

\* C16: for an assistant_response message the cost is 3.0*input + 3.0*cacheWrite
\* + 0.30*cacheRead + 15.0*output per million tokens and the cache savings are
\* cacheRead*(3.0 - 0.30) per million tokens (30, 30, 3, 150 and 27 in units of
\* 1e-7 per token); the cost is additive in the counters and not negative, and
\* the savings are 0 when cacheRead is 0.
C16_CostFormula ==
    (calcRow # Nil /\ calcMsg.Type = "assistant_response")
    => /\ calcRow.Cost = 30 * calcMsg.InputTokens + 30 * calcMsg.CacheCreation
                           + 3 * calcMsg.CacheRead + 150 * calcMsg.OutputTokens
       /\ calcRow.CacheSavings = 27 * calcMsg.CacheRead
       /\ calcRow.Cost >= 0
       /\ (calcMsg.CacheRead = 0 => calcRow.CacheSavings = 0)
       /\ \A other \in {t \in TokenMessages : t.Type = "assistant_response"} :
              calculateMessageCost(AddTokens(calcMsg, other)).cost
                  = calcRow.Cost + calculateMessageCost(other).cost

C16_Witness ==
    /\ calcRow # Nil
    /\ calcMsg = [Type |-> "assistant_response", InputTokens |-> 1, OutputTokens |-> 2,
                  CacheCreation |-> 3, CacheRead |-> 2]
    /\ calcRow.Cost = 426
    /\ calcRow.CacheSavings = 54

\* C17: the output percentage is 100*output/(input+output) rounded to the
\* nearest integer when input+output > 0, and 0 when input+output = 0.
RoundedPercent(inputTokens, outputTokens) ==
    LET total == inputTokens + outputTokens
    IN IF total = 0 THEN 0 ELSE (200 * outputTokens + total) \div (2 * total)
C17_OutputPercentRounded ==
    calcRow # Nil
    => calcRow.OutputPercentage = RoundedPercent(calcMsg.InputTokens, calcMsg.OutputTokens)

(***************************************************************************)
(* Properties of the project session list (checked under SpecList)         *)
(***************************************************************************)
FileIndexOf(id) == (CHOOSE i \in 1..Len(dirFiles) : dirFiles[i].name = id)

\* C20: the session list of a project is ordered by file modification time,
\* newest first: of two listed sessions the earlier one was not modified
\* before the later one.
C20_ListedNewestFirst ==
    (listed # Nil /\ listed.err = "")
    => \A i, j \in 1..Len(listed.sessions) :
          i < j => dirFiles[FileIndexOf(listed.sessions[i].ID)].modTime
                     >= dirFiles[FileIndexOf(listed.sessions[j].ID)].modTime

\* C21: the sort of the project session list is stable: two listed sessions
\* with the same last-updated time appear in the order in which their files
\* were met in the directory.
C21_TiesKeepEncounterOrder ==
    (listed # Nil /\ listed.err = "")
    => \A i, j \in 1..Len(listed.sessions) :
          (i < j /\ listed.sessions[i].Updated = listed.sessions[j].Updated)
          => FileIndexOf(listed.sessions[i].ID) < FileIndexOf(listed.sessions[j].ID)

(***************************************************************************)
(* Properties of the message list (checked under Spec)                     *)
(***************************************************************************)
\* What a row displays of its message: everything but its position.
RowMessage(row) == [row EXCEPT !.Index = 0]
Displayed(mm) == [i \in 1..Len(mm.messages) |-> RowMessage(mm.messages[i])]

\* C23: in ViewSessionDetail the s key reverses the displayed message
\* sequence and keeps the selection index and the filter; pressed twice it
\* gives back the displayed sequence it started from.
C23_ToggleSortReverses ==
    m.viewMode = ViewSessionDetail
    => LET once  == KeySUpdate(m).m
           twice == KeySUpdate(once).m
       IN /\ Displayed(once) = Reverse(Displayed(m))
          /\ once.selectedMessageIdx = m.selectedMessageIdx
          /\ once.messageFilter = m.messageFilter
          /\ Displayed(twice) = Displayed(m)

(***************************************************************************)
(* Properties of the process session list (checked under SpecFind)         *)
(***************************************************************************)
\* C22: the session list shown after selecting a process is sorted by last
\* activity, newest first: no listed session was updated before one listed
\* after it.
C22_ProcessSessionsNewestFirst ==
    (found # Nil /\ found.msg.err = "")
    => \A i, j \in 1..Len(found.msg.sessions) :
          i < j => found.msg.sessions[i].Updated >= found.msg.sessions[j].Updated

\* The directory name in which every path separator, the leading one too, is
\* a dash.
RECURSIVE DashEverySeparator(_, _)
DashEverySeparator(path, i) ==
    IF i > Len(path) THEN "" ELSE "-" \o path[i] \o DashEverySeparator(path, i + 1)

\* C27: the directory looked up for a working directory is named by the
\* working directory with every path separator, the leading one included,
\* replaced by a dash.
C27_EverySeparatorDashed ==
    found # Nil => found.msg.dirName = DashEverySeparator(findIn.workingDir, 1)

HasSessionDir == findIn.root.name = convertPathToSessionDirName(findIn.workingDir)

\* C28: a working directory without a session directory gives an empty list
\* and no error, and after the handler the model holds an empty session list
\* and an empty session error; an unreadable session directory gives a
\* non-empty session error.
C28_MissingDirIsEmpty ==
    /\ (found # Nil /\ ~HasSessionDir)
       => /\ found.msg.sessions = <<>> /\ found.msg.err = ""
          /\ found.model # Nil
             => found.model.sessions = <<>> /\ found.model.sessionError = ""
    /\ (found # Nil /\ HasSessionDir /\ ~findIn.root.readable /\ found.model # Nil)
       => found.model.sessionError # ""

C28_Witness ==
    /\ found # Nil /\ found.model # Nil
    /\ ~HasSessionDir
    /\ findIn.model.sessions # <<>> /\ findIn.model.sessionError # ""
    /\ found.model.sessions = <<>> /\ found.model.sessionError = ""

(***************************************************************************)
(* Properties of scrollToSelection (checked under SpecScroll)              *)
(***************************************************************************)
Largest(a, b) == IF a >= b THEN a ELSE b
Smallest(a, b) == IF a <= b THEN a ELSE b
Clamp(x, lo, hi) == Largest(lo, Smallest(x, hi))
ValidSelection == viewport.selectedMessageIdx >= 0 /\ viewport.selectedMessageIdx < viewport.count

\* C25: for a valid selection the target top line is
\* selectedIndex*4 - H/2 + 2 clamped to [0, max(0, 4*T - H)], and the
\* viewport is moved there; with no messages the scroll offset is unchanged.
C25_ScrollTarget ==
    scrolled # Nil
    => /\ ValidSelection
          => LET target == Clamp(viewport.selectedMessageIdx * 4 - (viewport.Height \div 2) + 2,
                                 0, Largest(0, 4 * viewport.count - viewport.Height))
             IN /\ ~scrolled.returned
                /\ scrolled.targetTopLine = target
                /\ scrolled.view.YOffset = target
       /\ viewport.count = 0 => scrolled.view.YOffset = viewport.YOffset

\* The selection is centred, clamped at the top, or clamped at the bottom.
C25_Witness ==
    /\ scrolled # Nil /\ ValidSelection
    /\ viewport.YOffset # scrolled.view.YOffset
    /\ scrolled.targetTopLine > 0
    /\ scrolled.targetTopLine < 4 * viewport.count - viewport.Height
    /\ viewport.Height % 2 = 1

(***************************************************************************)
(* Properties of the process discovery (checked under SpecProcs)           *)
(***************************************************************************)
ScannedProcess == sysProcs.procs[procScan.i]
PermissionDenied == "[Permission Denied]"

\* C26: the record built for a process carries the sentinel
\* [Permission Denied] exactly when the lookup of its working directory
\* failed for lack of permission; any other failure gives another value.
C26_PermissionDeniedDistinct ==
    (procScan.i >= 1 /\ procScan.metrics # Nil)
    => /\ ScannedProcess.cwd = "permission" => procScan.metrics.WorkingDir = PermissionDenied
       /\ ScannedProcess.cwd \in CwdOutcomes \ {"ok", "permission"}
          => procScan.metrics.WorkingDir # PermissionDenied

(***************************************************************************)
(* Properties of the view state machine (checked under Spec)               *)
(***************************************************************************)
SelectedSession == m.sessions[m.selectedSessionIdx + 1]
KeyFilterOrSort == KeyU \/ KeyA \/ KeyB \/ KeyS
OpensMessage == m.viewMode = ViewSessionDetail /\ m'.viewMode = ViewMessageDetail
OpensSession == m.viewMode = ViewSessions /\ m'.viewMode = ViewSessionDetail
LeavesSessions == m.viewMode = ViewSessions /\ m'.viewMode \in {ViewProcesses, ViewProjects}

SelectEdges == {<<ViewProcesses, ViewSessions>>, <<ViewProjects, ViewSessions>>,
                <<ViewSessions, ViewSessionDetail>>, <<ViewSessionDetail, ViewMessageDetail>>}
BackEdges   == {<<e[2], e[1]>> : e \in SelectEdges}
ToggleEdges == {<<ViewProcesses, ViewProjects>>, <<ViewProjects, ViewProcesses>>}

\* C2: whenever SessionDetail holds aggregated stats, they are the stats of the
\* session currently selected in the session list: a load completion for
\* another session is discarded.
C2_StatsOfSelectedSession ==
    (m.viewMode = ViewSessionDetail /\ m.sessionStats # Nil)
    => /\ InRange(m.selectedSessionIdx, m.sessions)
       /\ m.sessionStats.FilePath = SelectedSession.Path

\* C3: enter in SessionDetail opens in MessageDetail the message displayed at
\* the selection index of the filtered and sorted list: the detail message is
\* the message of the card row at selectedMessageIdx.
C3_EnterOpensDisplayedMessage ==
    [][OpensMessage =>
         /\ InRange(m.selectedMessageIdx, m.messages)
         /\ m'.detailMessage # Nil
         /\ MessageRow(m'.detailMessage, m.selectedMessageIdx + 1)
              = m.messages[m.selectedMessageIdx + 1]]_vars

\* C4: after u, a, b or s in SessionDetail the selection index lies in
\* [0, count-1] for the count of messages now displayed, and is 0 when that
\* count is 0.
C4_SelectionClampedAfterFilter ==
    [][(KeyFilterOrSort /\ m.viewMode = ViewSessionDetail) =>
         IF Len(m'.messages) = 0 THEN m'.selectedMessageIdx = 0
         ELSE InRange(m'.selectedMessageIdx, m'.messages)]_vars

\* C5: enter in SessionList opens SessionDetail with filter All, sort order
\* oldest first and selection index 0, whatever an earlier session left behind.
C5_SelectSessionResets ==
    [][OpensSession =>
         /\ m'.messageFilter = FilterAll
         /\ ~m'.messageSortNewestFirst
         /\ m'.selectedMessageIdx = 0]_vars

\* C6: the view changes only along the select edges (enter), the matching back
\* edges (esc) and the p toggle between the two top lists; ticks, load
\* completions and window resizes never change it.
C6_LegalViewTransitions ==
    [][m'.viewMode # m.viewMode =>
         /\ \/ KeyEnter /\ <<m.viewMode, m'.viewMode>> \in SelectEdges
            \/ KeyEsc /\ <<m.viewMode, m'.viewMode>> \in BackEdges
            \/ KeyP /\ <<m.viewMode, m'.viewMode>> \in ToggleEdges
         /\ ~(Tick \/ ProcessesMsg \/ SessionsMsg \/ SessionDetailMsg \/ ProjectsMsg
              \/ WindowSize)]_vars

C6_Witness ==
    /\ m.viewMode = ViewMessageDetail
    /\ enteredFrom = ViewProjects
    /\ m.selectedProcIdx = 0 /\ Len(m.processes) > 0

\* C7: esc in SessionList leaves it for ProjectList if and only if the list was
\* entered by selecting a project, and for ProcessList if it was entered by
\* selecting a process.
C7_BackToSourceList ==
    [][/\ (LeavesSessions => m'.viewMode = enteredFrom)
       /\ ((KeyEsc /\ m.viewMode = ViewSessions) => m'.viewMode = enteredFrom)]_vars

C7_Witness ==
    /\ m.viewMode = ViewProjects
    /\ enteredFrom = ViewProjects
    /\ m.sessions = <<>>
    /\ m.selectedMessageIdx = 1

\* C19: a sessions, session-detail or projects load completion that carries an
\* error changes only the error message of its own view: the view, the lists,
\* the stats, the selection indices, the filter and the sort order are as
\* before, and the program does not quit.
OwnError(kind) ==
    CASE kind \in {"sessions", "projectSessions"} -> "sessionError"
      [] kind = "sessionDetail"                   -> "messageError"
      [] OTHER                                    -> "projectsError"
FailedLoad(c) ==
    /\ c.kind \in {"sessions", "projectSessions", "sessionDetail", "projects"}
    /\ pending' = pending (-) SetToBag({c})
    /\ m'[OwnError(c.kind)] # ""
C19_LoadErrorScoped ==
    [][\A c \in BagToSet(pending) :
          FailedLoad(c) =>
             /\ m' = [m EXCEPT ![OwnError(c.kind)] = m'[OwnError(c.kind)]]
             /\ ~m'.quitting]_vars

C19_Witness ==
    /\ m.projectsError # ""
    /\ m.viewMode = ViewProjects
    /\ Len(m.projects) > 0
    /\ pending = EmptyBag

\* C29: no aggregated session stats are held while the active view is the
\* process list, the project list or the session list, also when a
\* session-detail load completes after the user has left ViewSessionDetail.
C29_NoStatsInListViews ==
    m.viewMode \in {ViewProcesses, ViewProjects, ViewSessions} => m.sessionStats = Nil

\* The message selection index lies within [0, max(0, count - 1)].
MessageIdxInRange(mm) ==
    /\ mm.selectedMessageIdx >= 0
    /\ mm.selectedMessageIdx <= (IF Len(mm.messages) > 0 THEN Len(mm.messages) - 1 ELSE 0)

\* C32: in ViewSessionDetail the keys up, down, home and end keep the message
\* selection index within [0, max(0, count - 1)] for count displayed messages;
\* the index never becomes negative, also when no message is displayed.
C32_NavKeepsIndexInRange ==
    (m.viewMode = ViewSessionDetail /\ MessageIdxInRange(m))
    => \A key \in {"up", "down", "home", "end"} : MessageIdxInRange(KeyNavUpdate(m, key))

\* idx is a valid index of list (counted from 0), or 0 when list is empty.
ValidIndex(idx, list) == IF Len(list) = 0 THEN idx = 0 ELSE idx >= 0 /\ idx < Len(list)
Completes(kinds) == \E c \in InFlight(kinds) : pending' = pending (-) SetToBag({c})

\* C33: when a load completion replaces the process, project or session list,
\* the selection index of that list is a valid index of the new list, or 0
\* when the new list is empty, also when the new list is shorter than the old.
C33_IndexValidAfterReplace ==
    [][/\ (Completes({"processes"}) /\ m'.processes # m.processes)
          => ValidIndex(m'.selectedProcIdx, m'.processes)
       /\ (Completes({"projects"}) /\ m'.projects # m.projects)
          => ValidIndex(m'.selectedProjIdx, m'.projects)
       /\ (Completes({"sessions", "projectSessions"}) /\ m'.sessions # m.sessions)
          => ValidIndex(m'.selectedSessionIdx, m'.sessions)]_vars

\* C38: a process-refresh completion that carries an error leaves the
\* displayed process list and the process selection as they were.
C38_FailedRefreshKeepsList ==
    [][(Running /\ \E c \in InFlight({"processes"}) : RefreshFailed(c))
       => /\ m'.processes = m.processes
          /\ m'.selectedProcIdx = m.selectedProcIdx]_vars

Refreshes(cmds) == Cardinality({i \in 1..Len(cmds) : cmds[i].kind = "processes"})

\* C37: until quit exactly one timer tick is outstanding: the tick handler
\* re-arms exactly one tick in every view, no other step changes the number
\* of outstanding ticks, and the tick handler dispatches a process refresh
\* exactly when the active view is the process list.
C37_OneTickOutstanding ==
    /\ [](Running => /\ ticks = 1
                     /\ Ticks(TickUpdate(m).cmds) = 1
                     /\ Refreshes(TickUpdate(m).cmds)
                           = (IF m.viewMode = ViewProcesses THEN 1 ELSE 0))
    /\ [][ticks' = ticks]_vars
C37_Witness ==
    /\ Running
    /\ m.viewMode \in {ViewSessionDetail, ViewMessageDetail}
    /\ ticks = 1
    /\ Refreshes(TickUpdate(m).cmds) = 0
    /\ Ticks(TickUpdate(m).cmds) = 1

\* The lines of the card at index idx, each card taking linesPerCard lines.
CardLines(idx) == (idx * linesPerCard)..(idx * linesPerCard + linesPerCard - 1)
Window(vp) == vp.YOffset..(vp.YOffset + vp.Height - 1)

C36_CardIsFourLines == card # Nil => Len(card.lines) = linesPerCard

\* C34: whenever the active view is SessionDetail with a non-empty message
\* list, the card highlighted in the viewport content is the card at the
\* current selection index, also right after esc from MessageDetail in which
\* left or right changed the selection.
C34_HighlightIsSelection ==
    (m.viewMode = ViewSessionDetail /\ Len(m.messages) > 0)
    => m.highlighted = m.selectedMessageIdx

=============================================================================
